---- MODULE Spec2Model ----
(***************************************************************************)
(* A model of the domaingenie candidate generation, scoring and ranking    *)
(* pipeline (src/src/searchCore.ts and the modules it calls).              *)
(*                                                                         *)
(* Strings are sequences of one-character strings, so that slicing,        *)
(* endsWith, lastIndexOf, lowercasing and the regular expressions of the   *)
(* source are computed the way the source computes them.                   *)
(*                                                                         *)
(* A score is a rational number: vowelRatio is a quotient of two counts.   *)
(* A score record carries one denominator `den`; `total` and every entry   *)
(* of `components` are numerators over it.                                 *)
(***************************************************************************)
EXTENDS Integers, Sequences, FiniteSets, TLC

\* pc      where the search in flight stands (executeSearch)
\* client  the DomainSearchClient: its init options
\* search  the locals of the executeSearch call in flight
\* cands   the candidate list handed to a rankDomains call run step by step
\* rk      the locals of that rankDomains call
\* call    a call of one function of the pipeline on its own: its arguments
\* ret     what that call returned
VARIABLES pc, client, search, cands, rk, call, ret, heap

vars == <<pc, client, search, cands, rk, call, ret, heap>>

\* ------------------------------------------------------------------ strings

Lower == <<"a","b","c","d","e","f","g","h","i","j","k","l","m",
           "n","o","p","q","r","s","t","u","v","w","x","y","z">>

Upper == <<"A","B","C","D","E","F","G","H","I","J","K","L","M",
           "N","O","P","Q","R","S","T","U","V","W","X","Y","Z">>

Digits == {"0","1","2","3","4","5","6","7","8","9"}

LowerSet == {Lower[i] : i \in 1..Len(Lower)}

UpperSet == {Upper[i] : i \in 1..Len(Upper)}

Vowels == {"a","e","i","o","u"}

Consonants == LowerSet \ Vowels

Range(s) == {s[i] : i \in 1..Len(s)}

Min(a, b) == IF a < b THEN a ELSE b

Max(a, b) == IF a > b THEN a ELSE b

\* String.prototype.toLowerCase, one character
ToLowerChar(c) ==
  IF c \in UpperSet
    THEN Lower[CHOOSE i \in 1..Len(Upper) : Upper[i] = c]
    ELSE c

\* String.prototype.toLowerCase
ToLower(s) == <<>> \o [i \in 1..Len(s) |-> ToLowerChar(s[i])]

\* String.prototype.endsWith
EndsWith(s, t) ==
  /\ Len(t) <= Len(s)
  /\ SubSeq(s, Len(s) - Len(t) + 1, Len(s)) = t

\* s.slice(0, -k) for k >= 1 (k = 0 is slice(0, -0) = slice(0, 0): empty)
DropLast(s, k) ==
  IF k = 0 THEN <<>> ELSE SubSeq(s, 1, Len(s) - k)

\* String.prototype.lastIndexOf (0-based, -1 when absent)
LastIndexOf(s, c) ==
  IF \E i \in 1..Len(s) : s[i] = c
    THEN (CHOOSE i \in 1..Len(s) : s[i] = c /\ \A j \in (i+1)..Len(s) : s[j] # c) - 1
    ELSE -1

\* Number of positions of s holding a character of set cs
CountIn(s, cs) == Cardinality({i \in 1..Len(s) : s[i] \in cs})

\* The indices of a sequence, and the subsequence at a list of indices
Indices(s) == <<>> \o [i \in 1..Len(s) |-> i]

PickAll(s, idx) == <<>> \o [k \in 1..Len(idx) |-> s[idx[k]]]

\* Concatenation of a sequence of sequences (Array.prototype.flat)
RECURSIVE Flatten(_)
Flatten(ss) ==
  IF Len(ss) = 0 THEN <<>>
  ELSE IF Len(ss) = 1 THEN <<>> \o ss[1]
  ELSE LET h == Len(ss) \div 2
       IN Flatten(SubSeq(ss, 1, h)) \o Flatten(SubSeq(ss, h + 1, Len(ss)))

\* Lexicographic order of two strings by character order (localeCompare < 0)
CharOrder == <<"-","0","1","2","3","4","5","6","7","8","9">> \o Lower

CharRank(c) ==
  IF c \in Range(CharOrder)
    THEN CHOOSE i \in 1..Len(CharOrder) : CharOrder[i] = c
    ELSE 0

\* a.localeCompare(b) < 0
LexLess(a, b) ==
  \E k \in 1..Len(b) :
    /\ \A i \in 1..(k - 1) : i <= Len(a) /\ CharRank(a[i]) = CharRank(b[i])
    /\ (k > Len(a) \/ CharRank(a[k]) < CharRank(b[k]))

\* ------------------------------------------------------------------- utils

\* The static stop-word list (stopwords.json), as far as the queries use it
STOP_WORDS == {<<"t","h","e">>, <<"a">>, <<"f","o","r">>}

AlnumSet == LowerSet \cup Digits

\* s.match(/[a-z0-9]+/g) || []: the maximal runs of [a-z0-9], left to right
AlnumRuns(s) ==
  LET n == Len(s)
      In(i) == i >= 1 /\ i <= n /\ s[i] \in AlnumSet
      IsStart(i) == In(i) /\ ~In(i - 1)
      starts == SelectSeq(Indices(s), IsStart)
      EndOf(i) == CHOOSE j \in i..n : (\A k \in i..j : In(k)) /\ ~In(j + 1)
  IN <<>> \o [k \in 1..Len(starts) |-> SubSeq(s, starts[k], EndOf(starts[k]))]

normalizeTokens(input) ==
  LET IsKept(t) == t \notin STOP_WORDS
  IN SelectSeq(AlnumRuns(ToLower(input)), IsKept)

\* tld.replace(/^\./, '').toLowerCase()
normalizeTld(tld) ==
  ToLower(IF tld # <<>> /\ Head(tld) = "." THEN Tail(tld) ELSE tld)

\* /^[a-z]{2,}$/i
IsAlphaRun2(s) == Len(s) >= 2 /\ \A i \in 1..Len(s) : ToLowerChar(s[i]) \in LowerSet

\* TLD_REGEX = /^[a-z]{2,}(?:\.[a-z]{2,})?$/i on the normalized TLD
isValidTld(tld) ==
  LET t == normalizeTld(tld)
      dots == {i \in 1..Len(t) : t[i] = "."}
  IN \/ IsAlphaRun2(t)
     \/ /\ Cardinality(dots) = 1
        /\ LET d == CHOOSE i \in dots : TRUE
           IN IsAlphaRun2(SubSeq(t, 1, d - 1)) /\ IsAlphaRun2(SubSeq(t, d + 1, Len(t)))

\* Array.from(new Set(arr)): first occurrences, in order
unique(arr) ==
  LET IsFirst(i) == \A j \in 1..(i - 1) : arr[j] # arr[i]
  IN PickAll(arr, SelectSeq(Indices(arr), IsFirst))

LOCATION_MAP ==
  [k \in {<<"u","s">>, <<"u","k">>, <<"c","a">>, <<"d","e">>,
          <<"f","r">>, <<"a","u">>, <<"i","n">>, <<"n","g">>} |->
     IF k = <<"u","k">> THEN <<"c","o",".","u","k">> ELSE k]

\* The absent value (undefined)
Undefined == <<"undefined">>

getCcTld(location) ==
  IF location = Undefined \/ location = <<>> THEN Undefined
  ELSE LET lower == ToLower(location)
       IN IF Len(lower) = 2 /\ \A i \in 1..2 : lower[i] \in LowerSet THEN lower
          ELSE IF lower \in DOMAIN LOCATION_MAP THEN LOCATION_MAP[lower]
          ELSE Undefined

\* vowelRatio as the pair <<vowels, letters>>; the ratio is 0 when letters = 0
vowelRatio(str) ==
  LET IsLetter(c) == ToLowerChar(c) \in LowerSet
      letters == SelectSeq(str, IsLetter)
  IN <<CountIn(ToLower(letters), Vowels), Len(letters)>>

\* combine(lists, joiner): one element of each list, joined, first list outermost
RECURSIVE combineFrom(_, _, _, _)
combineFrom(lists, joiner, prefix, idx) ==
  IF idx > Len(lists) THEN <<prefix>>
  ELSE Flatten([k \in 1..Len(lists[idx]) |->
         combineFrom(lists, joiner,
                     IF prefix # <<>> THEN prefix \o joiner \o lists[idx][k]
                                      ELSE lists[idx][k],
                     idx + 1)])

combine(lists, joiner) ==
  IF Len(lists) > 0 THEN combineFrom(lists, joiner, <<>>, 1) ELSE <<>>

\* ----------------------------------------------------------------- scoring

DEFAULT_TLD_WEIGHTS ==
  [t \in {<<"c","o","m">>, <<"n","e","t">>, <<"o","r","g">>} |->
     IF t = <<"c","o","m">> THEN 20 ELSE 10]

\* A configuration that rewards a hyphen
ScoringConfigHyphenBonus ==
  [tldWeights |-> DEFAULT_TLD_WEIGHTS,
   hyphenPenalty |-> 0 - 3,
   numberPenalty |-> 5,
   baseScore |-> 100,
   lengthPenaltyPerChar |-> 1,
   lengthSeverity |-> 2,
   vowelRatioWeight |-> 10,
   lowVowelRatioThreshold |-> <<3, 10>>,
   lowVowelPenalty |-> 5,
   consonantClusterPenalty |-> 5,
   repeatedLettersPenalty |-> 5,
   locationTldBonus |-> 20,
   dictionaryWord |-> 15,
   dictionarySubstr |-> 5]

\* class ScoringConfig: the default weights
ScoringConfig ==
  [tldWeights |-> DEFAULT_TLD_WEIGHTS,
   hyphenPenalty |-> 5,
   numberPenalty |-> 5,
   baseScore |-> 100,
   lengthPenaltyPerChar |-> 1,
   lengthSeverity |-> 2,
   vowelRatioWeight |-> 10,
   lowVowelRatioThreshold |-> <<3, 10>>,
   lowVowelPenalty |-> 5,
   consonantClusterPenalty |-> 5,
   repeatedLettersPenalty |-> 5,
   locationTldBonus |-> 20,
   dictionaryWord |-> 15,
   dictionarySubstr |-> 5]

\* The word list (word-list-json), as far as the labels of the model reach it
ENGLISH_DICTIONARY ==
  {<<"f","a","s","t">>, <<"t","e","c","h">>, <<"b","r","a","n","d">>,
   <<"s","o","l","o">>, <<"q","u","i","c","k">>, <<"m","y">>, <<"g","o">>}

isDictionaryWord(word) ==
  LET w == ToLower(word)
  IN /\ w # <<>>
     /\ \A i \in 1..Len(w) : w[i] \in LowerSet
     /\ w \in ENGLISH_DICTIONARY

\* String.prototype.split on one separator character
SplitOn(s, sep) ==
  LET IsSep(i) == s[i] = sep
      cuts == <<0>> \o SelectSeq(Indices(s), IsSep) \o <<Len(s) + 1>>
  IN <<>> \o [k \in 1..(Len(cuts) - 1) |-> SubSeq(s, cuts[k] + 1, cuts[k + 1] - 1)]

isComposedOfDictionaryWords(label) ==
  LET s == ToLower(label)
      NonEmpty(x) == x # <<>>
      parts == SelectSeq(SplitOn(s, "-"), NonEmpty)
      n == Len(s)
      early == Min(6, n - 2)
      lateStart == Max(2, n - 6)
      SplitsAt(i) == isDictionaryWord(SubSeq(s, 1, i)) /\ isDictionaryWord(SubSeq(s, i + 1, n))
  IN \/ Len(parts) > 1 /\ \A k \in 1..Len(parts) : isDictionaryWord(parts[k])
     \/ /\ "-" \notin Range(s)
        /\ s # <<>>
        /\ \A i \in 1..n : s[i] \in LowerSet
        /\ \/ \E i \in 2..early : SplitsAt(i)
           \/ \E i \in lateStart..(n - 2) : SplitsAt(i)

\* An add that keeps a key for a zero value as well
ScoreAddAlways(score, key, value) ==
  [score EXCEPT
     !.total = @ + value,
     !.components = [k \in (DOMAIN @) \cup {key} |-> IF k = key THEN value ELSE @[k]]]

\* add(key, value) of scoreDomain; value is a numerator over score.den
ScoreAdd(score, key, value) ==
  [score EXCEPT
     !.total = @ + value,
     !.components = IF value # 0
                      THEN [k \in (DOMAIN @) \cup {key} |-> IF k = key THEN value ELSE @[k]]
                      ELSE @]

\* /([bcdfghjklmnpqrstvwxyz]{4,})/i
HasConsonantCluster(label) ==
  \E i \in 1..(Len(label) - 3) :
    \A j \in i..(i + 3) : ToLowerChar(label[j]) \in Consonants

\* /([a-z])\1{2,}/i
HasRepeatedLetters(label) ==
  \E i \in 1..(Len(label) - 2) :
    /\ ToLowerChar(label[i]) \in LowerSet
    /\ ToLowerChar(label[i + 1]) = ToLowerChar(label[i])
    /\ ToLowerChar(label[i + 2]) = ToLowerChar(label[i])

\* A lookup that finds no weight
WeightOfNone(weights, suffix) == 0

\* weights[suffix] || 0
WeightOf(weights, suffix) ==
  IF suffix \in DOMAIN weights THEN weights[suffix] ELSE 0

scoreDomain(label, tld, location, cfg) ==
  LET ratio == vowelRatio(label)
      den == IF ratio[2] = 0 THEN 1 ELSE ratio[2]
      len == Len(label) + Len(tld)
      hyphenCount == CountIn(label, {"-"})
      numCount == CountIn(label, Digits)
      suffix == ToLower(tld)
      s0 == [total |-> 0, den |-> den, components |-> <<>>]
      s1 == ScoreAdd(s0, "base", cfg.baseScore * den)
      s2 == ScoreAdd(s1, "lengthPenalty",
                     (0 - (cfg.lengthSeverity * len * cfg.lengthPenaltyPerChar)) * den)
      s3 == ScoreAdd(s2, "hyphenPenalty", (0 - hyphenCount * cfg.hyphenPenalty) * den)
      s4 == ScoreAdd(s3, "numberPenalty", (0 - numCount * cfg.numberPenalty) * den)
      s5 == ScoreAdd(s4, "vowelRatio",
                     IF ratio[2] = 0 THEN 0 ELSE ratio[1] * cfg.vowelRatioWeight)
      s6 == IF ratio[1] * cfg.lowVowelRatioThreshold[2]
                 < cfg.lowVowelRatioThreshold[1] * den
              THEN ScoreAdd(s5, "lowVowelPenalty", (0 - cfg.lowVowelPenalty) * den)
              ELSE s5
      s7 == IF HasConsonantCluster(label)
              THEN ScoreAdd(s6, "consonantClusterPenalty",
                            (0 - cfg.consonantClusterPenalty) * den)
              ELSE s6
      s8 == IF HasRepeatedLetters(label)
              THEN ScoreAdd(s7, "repeatedLettersPenalty",
                            (0 - cfg.repeatedLettersPenalty) * den)
              ELSE s7
      s9 == ScoreAdd(s8, "tldWeight", WeightOf(cfg.tldWeights, suffix) * den)
      s10 == IF location # Undefined /\ location # <<>> /\ suffix = ToLower(location)
               THEN ScoreAdd(s9, "locationBonus", cfg.locationTldBonus * den)
               ELSE s9
  IN IF isDictionaryWord(label) THEN ScoreAdd(s10, "dictWord", cfg.dictionaryWord * den)
     ELSE IF isComposedOfDictionaryWords(label)
       THEN ScoreAdd(s10, "dictSubstr", cfg.dictionarySubstr * den)
     ELSE s10

\* b.total - a.total < 0 on two scores (numerators over their denominators)
ScoreGreater(a, b) == a.total * b.den > b.total * a.den

\* Array.prototype.sort with the comparator (a, b) => b - a on the given
\* scores: the order of the indices, descending and stable
SortOrder(scores) ==
  LET n == Len(scores)
      Before(j, i) == \/ ScoreGreater(scores[j], scores[i])
                      \/ (~ScoreGreater(scores[i], scores[j]) /\ j < i)
      pos == <<>> \o [i \in 1..n |-> Cardinality({j \in 1..n : Before(j, i)}) + 1]
  IN <<>> \o [p \in 1..n |-> CHOOSE i \in 1..n : pos[i] = p]

\* arr.sort((a, b) => b.score.total - a.score.total)
SortByScore(s) == PickAll(s, SortOrder(<<>> \o [i \in 1..Len(s) |-> s[i].score]))

\* A raw candidate is [domain, suffix, strategy]; absent fields hold Undefined
scoreCandidates(candidates, processed, locationTld, tldWeights) ==
  LET supported == {ToLower(processed.orderedTlds[i]) : i \in 1..Len(processed.orderedTlds)}
      Kept(cand) ==
        /\ cand.domain # Undefined /\ cand.domain # <<>>
        /\ cand.suffix # Undefined /\ cand.suffix # <<>>
        /\ (supported # {} => ToLower(cand.suffix) \in supported)
      Scored(cand) ==
        LET suffix == ToLower(cand.suffix)
            label == DropLast(cand.domain, Len(cand.suffix) + 1)
        IN [domain |-> cand.domain,
            suffix |-> suffix,
            strategy |-> cand.strategy,
            score |-> scoreDomain(label, suffix, locationTld,
                                  [ScoringConfig EXCEPT !.tldWeights = tldWeights])]
      kept == SelectSeq(candidates, Kept)
  IN SortByScore(<<>> \o [i \in 1..Len(kept) |-> Scored(kept[i])])

\* -------------------------------------------------------------- strategies

\* query.tokens.map(token => [token, ...(query.synonyms[token] ?? [])])
SynonymsOf(query, token) ==
  IF token \in DOMAIN query.synonyms THEN query.synonyms[token] ELSE <<>>

SynLists(query) ==
  <<>> \o [i \in 1..Len(query.tokens) |-> <<query.tokens[i]>> \o SynonymsOf(query, query.tokens[i])]

DomainOf(label, tld) == label \o <<".">> \o tld

HasDomain(map, domain) == \E k \in 1..Len(map) : map[k].domain = domain

\* The loop over tlds returning only when map.size is past the limit
RECURSIVE AddTldsPastLimit(_, _, _, _, _)
AddTldsPastLimit(st, label, tlds, k, limit) ==
  IF k > Len(tlds) THEN st
  ELSE LET domain == label \o <<".">> \o tlds[k]
       IN IF \E n \in 1..Len(st.map) : st.map[n].domain = domain
            THEN AddTldsPastLimit(st, label, tlds, k + 1, limit)
          ELSE LET map == Append(st.map, [domain |-> domain, suffix |-> tlds[k]])
               IN IF Len(map) > limit
                    THEN [st EXCEPT !.map = map, !.hit = TRUE]
                    ELSE AddTldsPastLimit([st EXCEPT !.map = map], label, tlds, k + 1, limit)

\* The inner loop over tlds of the single-token branch and of addLabel: a new
\* domain is appended to map (a Map in insertion order) and the loop returns
\* at once when map.size >= limit. st is [map, labelSet, hit].
RECURSIVE AddTlds(_, _, _, _, _)
AddTlds(st, label, tlds, k, limit) ==
  IF k > Len(tlds) THEN st
  ELSE LET domain == DomainOf(label, tlds[k])
       IN IF HasDomain(st.map, domain) THEN AddTlds(st, label, tlds, k + 1, limit)
          ELSE LET map == Append(st.map, [domain |-> domain, suffix |-> tlds[k]])
               IN IF Len(map) >= limit
                    THEN [st EXCEPT !.map = map, !.hit = TRUE]
                    ELSE AddTlds([st EXCEPT !.map = map], label, tlds, k + 1, limit)

\* The single-token branch: for (label of soleList) for (tld of tlds) ...
RECURSIVE SoleLoop(_, _, _, _, _)
SoleLoop(st, soleList, i, tlds, limit) ==
  IF i > Len(soleList) \/ st.hit THEN st
  ELSE SoleLoop(AddTlds(st, soleList[i], tlds, 1, limit), soleList, i + 1, tlds, limit)

\* An addLabel that reports the limit reached after any label it took
addLabelStops(st, label, tlds, limit) ==
  IF label = <<>> \/ label \in st.labelSet THEN [st EXCEPT !.hit = FALSE]
  ELSE [AddTlds([st EXCEPT !.labelSet = @ \cup {label}, !.hit = FALSE],
                label, tlds, 1, limit) EXCEPT !.hit = TRUE]

\* addLabel(label): st.hit is its return value
addLabel(st, label, tlds, limit) ==
  IF label = <<>> \/ label \in st.labelSet THEN [st EXCEPT !.hit = FALSE]
  ELSE LET marked == [st EXCEPT !.labelSet = @ \cup {label}, !.hit = FALSE]
           added == AddTlds(marked, label, tlds, 1, limit)
       IN IF added.hit THEN added
          ELSE [added EXCEPT !.hit = Len(added.map) >= limit]

\* for (const l of labels) if (addLabel(l)) return true; ... return false
RECURSIVE AddLabels(_, _, _, _, _)
AddLabels(st, labels, i, tlds, limit) ==
  IF i > Len(labels) THEN [st EXCEPT !.hit = FALSE]
  ELSE LET next == addLabel(st, labels[i], tlds, limit)
       IN IF next.hit THEN next ELSE AddLabels(next, labels, i + 1, tlds, limit)

\* A generateForPair that adds the hyphenated labels whether asked for or not
generateForPairHyphens(st, synLists, i, j, includeHyphenated, tlds, limit) ==
  LET lists == <<synLists[i], synLists[j]>>
      plain == AddLabels(st, combine(lists, <<>>), 1, tlds, limit)
  IN IF plain.hit THEN plain
     ELSE AddLabels(plain, combine(lists, <<"-">>), 1, tlds, limit)

\* generateForPair(i, j)
generateForPair(st, synLists, i, j, includeHyphenated, tlds, limit) ==
  LET lists == <<synLists[i], synLists[j]>>
      plain == AddLabels(st, combine(lists, <<>>), 1, tlds, limit)
  IN IF plain.hit THEN plain
     ELSE IF includeHyphenated THEN AddLabels(plain, combine(lists, <<"-">>), 1, tlds, limit)
     ELSE plain

\* for i, for j > i: pairs.push([i, j])
RECURSIVE PairsFrom(_, _, _)
PairsFrom(i, j, n) ==
  IF i > n THEN <<>>
  ELSE IF j > n THEN PairsFrom(i + 1, i + 2, n)
  ELSE <<(<<i, j>>)>> \o PairsFrom(i, j + 1, n)

\* What Math.random can give the shuffle of m pairs: for each i = m-1 .. 1
\* (0-based) an index j = floor(random * (i + 1)) in 0..i; draws[i] is that j
RandomDraws(m) ==
  {d \in [1..(m - 1) -> 0..(m - 1)] : \A i \in 1..(m - 1) : d[i] <= i}

Swap(s, a, b) == [s EXCEPT ![a] = s[b], ![b] = s[a]]

\* The Fisher-Yates loop: for (i = pairs.length - 1; i > 0; i--) swap(i, j)
RECURSIVE FisherYates(_, _, _)
FisherYates(pairs, draws, i) ==
  IF i <= 0 THEN pairs
  ELSE FisherYates(Swap(pairs, i + 1, draws[i] + 1), draws, i - 1)

\* for (const [i, j] of pairs) { forward; reverse }
RECURSIVE PairLoop(_, _, _, _, _, _, _)
PairLoop(st, synLists, pairs, k, includeHyphenated, tlds, limit) ==
  IF k > Len(pairs) THEN st
  ELSE LET fwd == generateForPair(st, synLists, pairs[k][1], pairs[k][2],
                                  includeHyphenated, tlds, limit)
       IN IF fwd.hit THEN fwd
          ELSE LET rev == generateForPair(fwd, synLists, pairs[k][2], pairs[k][1],
                                          includeHyphenated, tlds, limit)
               IN IF rev.hit THEN rev
                  ELSE PairLoop(rev, synLists, pairs, k + 1, includeHyphenated, tlds, limit)

\* Phase 1 of the multi-token branch: every list, every label
RECURSIVE SingleLoop(_, _, _, _, _)
SingleLoop(st, synLists, i, tlds, limit) ==
  IF i > Len(synLists) THEN [st EXCEPT !.hit = FALSE]
  ELSE LET next == AddLabels(st, synLists[i], 1, tlds, limit)
       IN IF next.hit THEN next ELSE SingleLoop(next, synLists, i + 1, tlds, limit)

\* A strategy that falls back to the bare tokens when the query has no TLDs
PermutationBareTokens(query, draws) ==
  <<>> \o [i \in 1..Len(query.tokens) |-> [domain |-> query.tokens[i], suffix |-> <<>>]]

\* PermutationStrategy.generate; draws is what Math.random gave the shuffle
PermutationStrategy(query, draws) ==
  LET tlds == query.orderedTlds
      st0 == [map |-> <<>>, labelSet |-> {}, hit |-> FALSE]
  IN IF Len(query.tokens) = 0 \/ Len(tlds) = 0 THEN <<>>
     ELSE IF Len(query.tokens) = 1
       THEN SoleLoop(st0, SynLists(query)[1], 1, tlds, query.limit).map
     ELSE LET synLists == SynLists(query)
              phase1 == SingleLoop(st0, synLists, 1, tlds, query.limit)
              all == PairsFrom(1, 2, Len(synLists))
              pairs == FisherYates(all, draws, Len(all) - 1)
          IN IF phase1.hit THEN phase1.map
             ELSE PairLoop(phase1, synLists, pairs, 1,
                           query.includeHyphenated, tlds, query.limit).map

\* A label given the first TLD only
WithFirstTld(label, tlds) ==
  IF Len(tlds) = 0 THEN <<>>
  ELSE <<[domain |-> DomainOf(label, tlds[1]), suffix |-> tlds[1]]>>

\* results.push({ domain: `${label}.${tld}`, suffix: tld }) for every tld
WithTlds(label, tlds) ==
  <<>> \o [k \in 1..Len(tlds) |-> [domain |-> DomainOf(label, tlds[k]), suffix |-> tlds[k]]]

\* AffixStrategy.generate
AffixStrategy(query) ==
  LET prefixes == query.prefixes
      suffixes == query.suffixes
      tlds == query.orderedTlds
      synLists == SynLists(query)
      bases == IF Len(synLists) > 0 THEN combine(synLists, <<>>) ELSE <<>>
      baseSet == unique(IF Len(bases) > 0 THEN bases ELSE query.tokens)
      ForBase(base) ==
        IF base = <<>> THEN <<>>
        ELSE Flatten([p \in 1..Len(prefixes) |-> WithTlds(prefixes[p] \o base, tlds)])
             \o Flatten([x \in 1..Len(suffixes) |-> WithTlds(base \o suffixes[x], tlds)])
  IN IF (Len(prefixes) = 0 /\ Len(suffixes) = 0) \/ Len(tlds) = 0 THEN <<>>
     ELSE Flatten([b \in 1..Len(baseSet) |-> ForBase(baseSet[b])])

\* A filter that lets every result through
KeepAllResults(results) == results

\* results.filter(r => r.domain && !seen.has(r.domain)): first of each domain
DedupeByDomain(results) ==
  LET IsFirst(i) == /\ results[i].domain # <<>>
                    /\ \A j \in 1..(i - 1) : results[j].domain # results[i].domain
  IN PickAll(results, SelectSeq(Indices(results), IsFirst))

\* What TldHackStrategy.generate reads from a ProcessedQuery: the TLDs of
\* orderedTlds, and the base labels the way AffixStrategy builds them (one
\* word per token, the token or one of its synonyms, joined in token order)
TldHackInput(query) ==
  [tlds |-> unique(query.orderedTlds),
   bases |-> combine(SynLists(query), <<>>)]

\* TldHackStrategy.generate: the splice of every dot-free base label that ends
\* with a TLD, then the filter on domains seen
TldHackStrategy(query) ==
  LET tlds == <<>> \o [k \in 1..Len(TldHackInput(query).tlds) |->
                 ToLower(TldHackInput(query).tlds[k])]
      bases == TldHackInput(query).bases
      Hacks(label) ==
        IF "." \in Range(label) THEN <<>>
        ELSE Flatten([k \in 1..Len(tlds) |->
               IF EndsWith(ToLower(label), tlds[k])
                 THEN <<[domain |-> DomainOf(DropLast(label, Len(tlds[k])), tlds[k]),
                         suffix |-> tlds[k]]>>
                 ELSE <<>>])
  IN IF Len(tlds) = 0 THEN <<>>
     ELSE DedupeByDomain(Flatten([b \in 1..Len(bases) |-> Hacks(bases[b])]))

\* --------------------------------------------------------------- generator

\* The fixed listing order of generateCandidates
StrategyNames == <<"permutation", "affix", "tldHack">>

\* arr.forEach(c => combined.push({ ...c, strategy: name }))
Tagged(arr, name) ==
  <<>> \o [k \in 1..Len(arr) |->
     [domain |-> arr[k].domain, suffix |-> arr[k].suffix, strategy |-> name]]

\* !domain for const domain = cand.domain?.toLowerCase()
HasNoDomain(cand) == cand.domain = Undefined \/ cand.domain = <<>>

\* The list as the strategies gave it, nothing skipped
DedupeKeepsAll(combined) == combined

\* The dedupe loop: a candidate whose domain, compared in lowercase, was seen
\* earlier in the list is skipped; one without a domain is kept
Dedupe(combined) ==
  LET IsKept(i) ==
        \/ HasNoDomain(combined[i])
        \/ \A j \in 1..(i - 1) :
              HasNoDomain(combined[j])
              \/ ToLower(combined[j].domain) # ToLower(combined[i].domain)
  IN PickAll(combined, SelectSeq(Indices(combined), IsKept))

\* A merge that takes the results in the order the strategies settled in
MergeAsSettled(results) ==
  Dedupe(Flatten([k \in 1..Len(search.settled) |->
                    Tagged(results[search.settled[k]], StrategyNames[search.settled[k]])]))

\* The merge of generateCandidates: results is indexed in listing order
\* (Promise.all resolves to the array of results by position)
MergeResults(results) ==
  Dedupe(Flatten([idx \in 1..Len(results) |-> Tagged(results[idx], StrategyNames[idx])]))

\* generateCandidates as a function of the query and the shuffle's draws
generateCandidates(processed, draws) ==
  MergeResults(<<PermutationStrategy(processed, draws),
                 AffixStrategy(processed),
                 TldHackStrategy(processed)>>)

\* ----------------------------------------------------------------- ranking

LABEL_DEMAND_BONUS == 7

maxStrategyRun == 1

lookahead == 6

\* The limit argument left out (typeof limit !== 'number')
NoLimit == 0 - 1

getDomainLabel(candidate) ==
  LET suffix == IF candidate.suffix = Undefined THEN <<>> ELSE candidate.suffix
      idx == LastIndexOf(candidate.domain, ".")
  IN IF suffix # <<>> /\ EndsWith(candidate.domain, <<".">> \o suffix)
       THEN DropLast(candidate.domain, Len(suffix) + 1)
     ELSE IF idx > 0 THEN SubSeq(candidate.domain, 1, idx)
     ELSE candidate.domain

\* cand.strategy || 'other'
StrategyOf(cand) == IF cand.strategy = "" THEN "other" ELSE cand.strategy

\* The Map bySuffix in insertion order: one queue per suffix, each in sorted order
GroupBySuffix(sorted) ==
  LET suffixes == unique(<<>> \o [i \in 1..Len(sorted) |-> sorted[i].suffix])
      Queue(sfx) == LET Has(c) == c.suffix = sfx IN SelectSeq(sorted, Has)
  IN <<>> \o [g \in 1..Len(suffixes) |-> Queue(suffixes[g])]

\* groups.sort by each group's top score, descending, stable
SortByTop(gs) ==
  PickAll(gs, SortOrder(<<>> \o [g \in 1..Len(gs) |-> gs[g][1].score]))

\* The state of rankDomains before its while loop; window is what the scan of
\* the latest pick looked at (queue[0..n-1])
RankInit(candidates, limit) ==
  [groups |-> SortByTop(GroupBySuffix(SortByScore(candidates))),
   total |-> Len(candidates),
   limit |-> limit,
   gi |-> 1,
   picked |-> 0,
   out |-> <<>>,
   usedLabels |-> {},
   lastStrategy |-> "",
   strategyRun |-> 0,
   window |-> <<>>,
   done |-> candidates = <<>>]

\* A scan of the whole queue
WindowWhole(queue) == Len(queue)

\* const n = Math.min(lookahead, queue.length)
WindowSize(queue) == Min(lookahead, Len(queue))

\* A scan that takes no notice of the strategy
BreaksAlways(st, cand) == TRUE

\* !(lastStrategy === strat && strategyRun >= maxStrategyRun)
BreaksRun(st, cand) ==
  ~(st.lastStrategy = StrategyOf(cand) /\ st.strategyRun >= maxStrategyRun)

\* A scan that takes the head of the queue
PickFirst(st, queue) == IF WindowSize(queue) > 0 THEN 1 ELSE 0

\* The scan of the window: pickIdx (1-based), 0 for none
PickIdx(st, queue) ==
  LET n == WindowSize(queue)
      fresh == {i \in 1..n : getDomainLabel(queue[i]) \notin st.usedLabels}
      breaking == {i \in fresh : BreaksRun(st, queue[i])}
      First(S) == CHOOSE i \in S : \A j \in S : i <= j
  IN IF breaking # {} THEN First(breaking)
     ELSE IF fresh # {} THEN First(fresh)
     ELSE IF n > 0 THEN 1
     ELSE 0

\* queue.splice(pickIdx, 1)
RemoveAt(queue, i) == SubSeq(queue, 1, i - 1) \o SubSeq(queue, i + 1, Len(queue))

\* A limit that stops one item late
LimitPassed(limit, out) == limit # NoLimit /\ Len(out) > limit

\* typeof limit === 'number' && out.length >= limit
LimitReached(limit, out) == limit # NoLimit /\ Len(out) >= limit

\* A loop body that stays on a group after a pick, until its queue is empty
ServeGroupAgain(st) ==
  LET queue == st.groups[st.gi]
      pickIdx == PickIdx(st, queue)
  IN IF Len(queue) = 0 \/ pickIdx = 0 THEN [st EXCEPT !.gi = @ + 1]
     ELSE LET item == queue[pickIdx]
              strat == StrategyOf(item)
              out == Append(st.out, item)
          IN [st EXCEPT
                !.groups[st.gi] = RemoveAt(queue, pickIdx),
                !.usedLabels = @ \cup {getDomainLabel(item)},
                !.strategyRun = IF st.lastStrategy = strat THEN @ + 1 ELSE 1,
                !.lastStrategy = strat,
                !.out = out,
                !.picked = @ + 1,
                !.window = SubSeq(queue, 1, WindowSize(queue)),
                !.done = LimitReached(st.limit, out)]

\* The body of the for loop for group st.gi: one pick, or none for an empty queue
ServeGroup(st) ==
  LET queue == st.groups[st.gi]
      pickIdx == PickIdx(st, queue)
  IN IF Len(queue) = 0 \/ pickIdx = 0 THEN [st EXCEPT !.gi = @ + 1]
     ELSE LET item == queue[pickIdx]
              strat == StrategyOf(item)
              out == Append(st.out, item)
          IN [st EXCEPT
                !.groups[st.gi] = RemoveAt(queue, pickIdx),
                !.usedLabels = @ \cup {getDomainLabel(item)},
                !.strategyRun = IF st.lastStrategy = strat THEN @ + 1 ELSE 1,
                !.lastStrategy = strat,
                !.out = out,
                !.picked = @ + 1,
                !.gi = @ + 1,
                !.window = SubSeq(queue, 1, WindowSize(queue)),
                !.done = LimitReached(st.limit, out)]

\* An end of pass that leaves the loop after the first sweep
EndPassStops(st) ==
  [st EXCEPT !.gi = 1, !.picked = 0, !.done = TRUE]

\* After the for loop: drop the empty groups, then the loop conditions
EndPass(st) ==
  LET NonEmpty(q) == Len(q) > 0
      groups == SelectSeq(st.groups, NonEmpty)
  IN [st EXCEPT
        !.groups = groups,
        !.gi = 1,
        !.picked = 0,
        !.done = st.picked = 0 \/ ~(Len(st.out) < st.total /\ Len(groups) > 0)]

\* One step of rankDomains: serve the next group, or close the pass
RankStep(st) ==
  IF st.gi <= Len(st.groups) THEN ServeGroup(st) ELSE EndPass(st)

\* The while loop run for 2^k steps at most; a finished run stays as it is
RECURSIVE RankRun(_, _)
RankRun(st, k) ==
  IF st.done THEN st
  ELSE IF k = 0 THEN RankStep(st)
  ELSE LET half == RankRun(st, k - 1)
       IN IF half.done THEN half ELSE RankRun(half, k - 1)

\* The least k with 2^k >= n
RECURSIVE Log2Up(_)
Log2Up(n) == IF n <= 1 THEN 0 ELSE 1 + Log2Up((n + 1) \div 2)

\* rankDomains(candidates, limit): each candidate costs one serving step at
\* most, each pass one closing step, and a pass that picks nothing ends the run
rankDomains(candidates, limit) ==
  RankRun(RankInit(candidates, limit), Log2Up(2 * Len(candidates) + 2)).out

\* The number of candidates of a list with the given label
DemandOf(unavailable, label) ==
  Cardinality({k \in 1..Len(unavailable) : getDomainLabel(unavailable[k]) = label})

\* candidates.map(...) of rerankWithUnavailable: the demand bonus on a copy
Adjusted(candidate, demand) ==
  IF demand = 0 THEN candidate
  ELSE LET bonus == demand * LABEL_DEMAND_BONUS * candidate.score.den
           c == candidate.score.components
           old == IF "availabilityDemand" \in DOMAIN c THEN c["availabilityDemand"] ELSE 0
       IN [candidate EXCEPT
             !.score.total = @ + bonus,
             !.score.components =
               [k \in (DOMAIN c) \cup {"availabilityDemand"} |->
                  IF k = "availabilityDemand" THEN old + bonus ELSE c[k]]]

rerankWithUnavailable(candidates, unavailable) ==
  IF candidates = <<>> THEN <<>>
  ELSE IF unavailable = <<>> THEN rankDomains(candidates, Len(candidates))
  ELSE LET adjusted == <<>> \o [k \in 1..Len(candidates) |->
                          Adjusted(candidates[k],
                                   DemandOf(unavailable, getDomainLabel(candidates[k])))]
       IN rankDomains(adjusted, Len(adjusted))

\* ---------------------------------------------------------------- synonyms

\* The synonyms library (synonymsLib), as far as the queries of the model
\* reach it: every list it holds for a word, in one list
SYNONYMS_LIB ==
  (<<"f","a","s","t">> :> << <<"q","u","i","c","k">>, <<"f","a","s","t">>, <<"Q","u","i","c","k">> >>)

\* The stemmer library, as far as the queries of the model reach it
stemmer(token) ==
  IF token = <<"f","a","s","t","s">> THEN <<"f","a","s","t">> ELSE token

\* The comparator of both sorts of expandSynonyms: by length, then localeCompare
WordBefore(a, b) == Len(a) < Len(b) \/ (Len(a) = Len(b) /\ LexLess(a, b))

\* arr.sort(by length, then localeCompare) on pairwise distinct words
SortWords(ws) ==
  LET Pos(i) == Cardinality({j \in 1..Len(ws) : WordBefore(ws[j], ws[i])}) + 1
      pos == <<>> \o [i \in 1..Len(ws) |-> Pos(i)]
  IN <<>> \o [p \in 1..Len(ws) |-> ws[CHOOSE i \in 1..Len(ws) : pos[i] = p]]

\* The body of expandSynonyms after the lookup: found is every word the
\* library holds for the token, in one list, and is empty when the library
\* has no entry or throws (the catch leaves `collected` empty)
expandSynonymsFrom(found, token, max) ==
  LET base == ToLower(token)
      lowered == <<>> \o [i \in 1..Len(found) |-> ToLower(found[i])]
      IsCollected(w) == w # <<>> /\ w # base /\ Len(w) <= 15
      cached == SortWords(unique(SelectSeq(lowered, IsCollected)))
      IsLong(w) == Len(w) > 1
      uniq == SortWords(SelectSeq(unique(cached), IsLong))
      limit == Max(0, Min(max, 10))
  IN SubSeq(uniq, 1, Min(limit, Len(uniq)))

\* expandSynonyms(token, max), with no extra words; the cache holds what the
\* lookup computes, so a cached answer is the computed one
expandSynonyms(token, max) ==
  expandSynonymsFrom(IF ToLower(token) \in DOMAIN SYNONYMS_LIB
                       THEN SYNONYMS_LIB[ToLower(token)] ELSE <<>>,
                     token, max)

\* -------------------------------------------------------------- searchCore

\* Math.max(baseGenerationLimit, 50)
MIN_GENERATION_LIMIT == 50

\* Math.min(10, ...) of the availability window
EXTRA_WINDOW == 10

\* A number of the options: Number.isFinite fails for NaN and the infinities
Num(n) == [finite |-> TRUE, n |-> n]

NotFinite == [finite |-> FALSE, n |-> 0]

\* A list of the options; NotArray is a truthy value that is no array
Arr(items) == [isArray |-> TRUE, items |-> items]

NotArray == [isArray |-> FALSE, items |-> <<>>]

\* new Error(message); the message of an invalid TLD carries the TLD
Thrown(text, value) == [text |-> text, value |-> value]

NotThrown == Thrown("", <<>>)

\* !str.trim(): nothing but white space
IsBlank(str) == \A i \in 1..Len(str) : str[i] = " "

\* error(message): the failure response
error(message) ==
  [results |-> <<>>,
   success |-> FALSE,
   includesAiGenerations |-> FALSE,
   message |-> message,
   metadata |-> [totalGenerated |-> 0, filterApplied |-> FALSE]]

\* cfg.field, for a field that is a flag: !!cfg.field
FlagOf(cfg, field) == field \in DOMAIN cfg /\ cfg[field]

\* The list in a field, [] when the field is absent or not an array
ListOf(cfg, field) ==
  IF field \in DOMAIN cfg /\ cfg[field].isArray THEN cfg[field].items ELSE <<>>

\* A check that lets a limit of 0 through
IsNegativeLimit(limit) == ~limit.finite \/ limit.n < 0

\* !Number.isFinite(limit) || limit <= 0
IsBadLimit(limit) == ~limit.finite \/ limit.n <= 0

\* !Number.isFinite(offset) || offset < 0
IsBadOffset(offset) == ~offset.finite \/ offset.n < 0

\* processRequest(init, options): the PreparedRequest, with the error it
\* throws in the field thrown (NotThrown when it returns)
processRequest(init, options) ==
  LET cfg == options @@ init
      limit == IF "limit" \in DOMAIN cfg THEN cfg.limit ELSE init.limit
      offset == IF "offset" \in DOMAIN cfg THEN cfg.offset ELSE Num(0)
      tokens == unique(normalizeTokens(cfg.query))
      synonymLimit ==
        Max(0, Min(IF "maxSynonyms" \in DOMAIN cfg THEN cfg.maxSynonyms ELSE 10, 10))
      SynonymsFor(token) ==
        LET list == expandSynonyms(token, synonymLimit)
        IN IF Len(list) = 0 THEN expandSynonyms(stemmer(token), synonymLimit) ELSE list
      synonyms == [t \in Range(tokens) |-> SynonymsFor(t)]
      hasSupportedOverride ==
        /\ "supportedTlds" \in DOMAIN options
        /\ options.supportedTlds.isArray
        /\ Len(options.supportedTlds.items) > 0
      Normalized(list) == <<>> \o [i \in 1..Len(list) |-> normalizeTld(list[i])]
      defaultSource ==
        Normalized(IF "defaultTlds" \in DOMAIN options THEN options.defaultTlds.items
                   ELSE IF hasSupportedOverride THEN <<>>
                   ELSE ListOf(init, "defaultTlds"))
      supportedSource ==
        Normalized(IF "supportedTlds" \in DOMAIN options THEN options.supportedTlds.items
                   ELSE ListOf(init, "supportedTlds"))
      sources == defaultSource \o supportedSource
      invalid == {i \in 1..Len(sources) : ~isValidTld(sources[i])}
      locationTldRaw ==
        getCcTld(IF "location" \in DOMAIN options THEN options.location ELSE Undefined)
      locationTld ==
        IF locationTldRaw # Undefined /\ locationTldRaw # <<>>
          THEN normalizeTld(locationTldRaw) ELSE Undefined
      synonymSet == UNION {Range(synonyms[t]) : t \in DOMAIN synonyms}
      InQuery(t) == t \in Range(tokens) \/ t \in synonymSet
      supportedTlds ==
        IF hasSupportedOverride THEN supportedSource ELSE SelectSeq(supportedSource, InQuery)
      IsPushed(t) == t # <<>> /\ t # Undefined
      orderedTlds ==
        unique(SelectSeq(defaultSource \o <<locationTld>> \o supportedTlds, IsPushed))
      baseGenerationLimit == IF init.limit.finite THEN Max(init.limit.n, 0) ELSE 0
      minGenerationLimit == Max(baseGenerationLimit, MIN_GENERATION_LIMIT)
      generationLimit == Max(limit.n + offset.n, minGenerationLimit)
      thrown ==
        IF "query" \notin DOMAIN options \/ IsBlank(options.query)
          THEN Thrown("query is required", <<>>)
        ELSE IF IsBadLimit(limit)
          THEN Thrown("limit must be positive", <<>>)
        ELSE IF IsBadOffset(offset)
          THEN Thrown("offset must be >= 0", <<>>)
        ELSE IF "supportedTlds" \in DOMAIN options /\ ~options.supportedTlds.isArray
          THEN Thrown("supportedTlds must be an array", <<>>)
        ELSE IF "defaultTlds" \in DOMAIN options /\ ~options.defaultTlds.isArray
          THEN Thrown("defaultTlds must be an array", <<>>)
        ELSE IF invalid # {}
          THEN Thrown("invalid tld: ",
                      sources[CHOOSE i \in invalid : \A j \in invalid : i <= j])
        ELSE IF locationTld # Undefined /\ ~isValidTld(locationTld)
          THEN Thrown("invalid tld: ", locationTld)
        ELSE NotThrown
  IN IF thrown # NotThrown THEN [thrown |-> thrown]
     ELSE [thrown |-> NotThrown,
           processed |->
             [query |-> cfg.query,
              tokens |-> tokens,
              synonyms |-> synonyms,
              orderedTlds |-> orderedTlds,
              includeHyphenated |-> FlagOf(cfg, "includeHyphenated"),
              checkAvailability |-> FlagOf(cfg, "checkAvailability"),
              limit |-> generationLimit,
              prefixes |-> ListOf(cfg, "prefixes"),
              suffixes |-> ListOf(cfg, "suffixes")],
           offset |-> offset.n,
           limit |-> limit.n,
           locationTld |-> locationTld,
           tldWeights |-> IF "tldWeights" \in DOMAIN cfg THEN cfg.tldWeights ELSE <<>>,
           filterApplied |-> hasSupportedOverride,
           checkAvailability |-> FlagOf(cfg, "checkAvailability")]

\* ------------------------------------------------------------ availability

VALID_AVAILABILITIES == {"unregistered", "registered", "unsupported", "invalid", "unknown"}

INVALID_AVAILABILITY == {"registered", "invalid"}

mapAvailability(value) == IF value \in VALID_AVAILABILITIES THEN value ELSE "unknown"

\* The availability provider (checkBatch of domainstat) as the environment:
\* it throws, or it answers for the domains asked except the omitted ones:
\* 'invalid' or 'registered' for the domains it holds so, and one answer for
\* all the others
ProviderAnswer(provider, domain) ==
  IF domain \in provider.invalid THEN "invalid"
  ELSE IF domain \in provider.registered THEN "registered"
  ELSE provider.other

\* A resolution that takes a domain without an answer for an invalid one
StatusInvalidOnFailure(provider, domain) ==
  IF provider.throws \/ ToLower(domain) \in provider.omitted THEN "invalid"
  ELSE IF ToLower(domain) \in provider.registered THEN "registered"
  ELSE "unregistered"

\* resolveStatuses: the status of one of the domains asked for
StatusOf(provider, domain) ==
  LET d == ToLower(domain)
  IN IF provider.throws \/ d \in provider.omitted THEN "unknown"
     ELSE mapAvailability(ProviderAnswer(provider, d))

\* The annotated copy of a candidate: availability set, isAvailable set for
\* unregistered (true) and registered or invalid (false), deleted otherwise
Annotated(cand, status) ==
  LET kept == [k \in (DOMAIN cand) \ {"isAvailable", "availability"} |-> cand[k]]
      flagged == IF status = "unregistered" THEN ("isAvailable" :> TRUE) @@ kept
                 ELSE IF status \in INVALID_AVAILABILITY THEN ("isAvailable" :> FALSE) @@ kept
                 ELSE kept
  IN ("availability" :> status) @@ flagged

\* An annotateAvailability that sets aside the registered candidates only
annotateRegisteredOnly(candidates, provider) ==
  LET annotated == <<>> \o [i \in 1..Len(candidates) |->
                              Annotated(candidates[i], StatusOf(provider, candidates[i].domain))]
      IsInvalid(c) == c.availability = "registered"
      IsValid(c) == ~IsInvalid(c)
  IN [available |-> SelectSeq(annotated, IsValid),
      unavailable |-> SelectSeq(annotated, IsInvalid)]

\* annotateAvailability(candidates) against the provider
annotateAvailability(candidates, provider) ==
  LET annotated == <<>> \o [i \in 1..Len(candidates) |->
                              Annotated(candidates[i], StatusOf(provider, candidates[i].domain))]
      IsInvalid(c) == c.availability \in INVALID_AVAILABILITY
      IsValid(c) == ~IsInvalid(c)
  IN [available |-> SelectSeq(annotated, IsValid),
      unavailable |-> SelectSeq(annotated, IsInvalid)]

\* { ...candidate, availability: candidate.availability ?? 'unknown' }
WithAvailability(cand) ==
  IF "availability" \in DOMAIN cand THEN cand ELSE ("availability" :> "unknown") @@ cand

\* windowSize of runAvailabilityStage: the page, and 10 candidates more at most
availabilityWindow(rankedAll, prepared) ==
  LET baseWindow == Max(prepared.limit + prepared.offset, prepared.limit)
      extraWindow == Min(EXTRA_WINDOW, Max(0, Len(rankedAll) - baseWindow))
  IN Min(Len(rankedAll), baseWindow + extraWindow)

\* runAvailabilityStage(rankedAll, prepared)
runAvailabilityStage(rankedAll, prepared, provider) ==
  IF ~prepared.checkAvailability \/ Len(rankedAll) = 0
    THEN [results |-> rankedAll, invalid |-> <<>>]
  ELSE LET windowSize == availabilityWindow(rankedAll, prepared)
           toCheck == SubSeq(rankedAll, 1, windowSize)
           rest == SubSeq(rankedAll, windowSize + 1, Len(rankedAll))
           remaining == <<>> \o [i \in 1..Len(rest) |-> WithAvailability(rest[i])]
           availabilityResult == annotateAvailability(toCheck, provider)
           combined == availabilityResult.available \o remaining
       IN [results |-> rerankWithUnavailable(combined, availabilityResult.unavailable),
           invalid |-> availabilityResult.unavailable]

\* The two slices of executeSearch: the offset, then the limit
PageOf(availabilityAdjusted, prepared) ==
  LET offsetApplied ==
        IF prepared.offset > 0
          THEN SubSeq(availabilityAdjusted, prepared.offset + 1, Len(availabilityAdjusted))
          ELSE availabilityAdjusted
  IN IF prepared.limit < Len(offsetApplied)
       THEN SubSeq(offsetApplied, 1, prepared.limit)
       ELSE offsetApplied

\* transform of buildResponse: the fields a response without debug keeps
Transformed(cand) ==
  [k \in {"domain", "suffix", "score", "strategy", "availability"} |-> WithAvailability(cand)[k]]

\* buildResponse(ranked, invalidCandidates, options, ..., processed)
buildResponse(ranked, invalidCandidates, options, totalGenerated, filterApplied, processed) ==
  LET Final(list) ==
        <<>> \o [i \in 1..Len(list) |->
                   IF FlagOf(options, "debug") THEN WithAvailability(list[i])
                   ELSE Transformed(list[i])]
  IN [results |-> Final(ranked),
      invalidCandidates |-> Final(invalidCandidates),
      success |-> TRUE,
      includesAiGenerations |-> FlagOf(options, "useAi"),
      metadata |-> [totalGenerated |-> totalGenerated, filterApplied |-> filterApplied],
      processed |-> processed]

\* executeSearch(init, options) as a function of what the environment gives
\* it: the draws of the shuffle and the availability provider; every stage
\* takes the value of the stage before it, computed once
executeSearch(init, options, draws, provider) ==
  LET Only(S) == CHOOSE v \in S : TRUE
      Respond5(prepared, rawCandidates, stage) ==
        buildResponse(PageOf(stage.results, prepared), stage.invalid, options,
                      Len(rawCandidates), prepared.filterApplied, prepared.processed)
      Stage4(prepared, rawCandidates, rankedAll) ==
        Only({Respond5(prepared, rawCandidates, stage) :
                stage \in {runAvailabilityStage(rankedAll, prepared, provider)}})
      Rank3(prepared, rawCandidates, scored) ==
        Only({Stage4(prepared, rawCandidates, rankedAll) :
                rankedAll \in {rankDomains(scored, prepared.processed.limit)}})
      Score2(prepared, rawCandidates) ==
        Only({Rank3(prepared, rawCandidates, scored) :
                scored \in {scoreCandidates(rawCandidates, prepared.processed,
                                            prepared.locationTld, prepared.tldWeights)}})
      Generate1(prepared) ==
        Only({Score2(prepared, rawCandidates) :
                rawCandidates \in {generateCandidates(prepared.processed, draws)}})
  IN Only({IF prepared.thrown # NotThrown THEN error(prepared.thrown)
           ELSE Generate1(prepared) :
             prepared \in {processRequest(init, options)}})

\* ------------------------------------------------------------------ inputs

COM == <<"c","o","m">>
NET == <<"n","e","t">>
ORG == <<"o","r","g">>
IO == <<"i","o">>
DEV == <<"d","e","v">>
LY == <<"l","y">>
NG == <<"n","g">>
ME == <<"m","e">>
US == <<"u","s">>
FAST == <<"f","a","s","t">>
TECH == <<"t","e","c","h">>
QUICK == <<"q","u","i","c","k">>
BANK == <<"b","a","n","k">>
BRAND == <<"b","r","a","n","d">>
SOLO == <<"s","o","l","o">>

\* A limit above the least generation limit
LargeLimit == 51

\* Two words of a query, a blank between them
Words(a, b) == a \o <<" ">> \o b

\* DEFAULT_INIT_OPTIONS, the long lists (supportedTlds, prefixes, suffixes) cut
\* to their first entries
DEFAULT_INIT_OPTIONS ==
  [defaultTlds |-> Arr(<<COM, NG>>),
   supportedTlds |-> Arr(<<COM, NET, ORG, IO, LY, NG, US>>),
   limit |-> Num(20),
   offset |-> Num(0),
   prefixes |-> Arr(<< <<"m","y">> >>),
   suffixes |-> Arr(<<LY>>),
   maxSynonyms |-> 5,
   tldWeights |-> (COM :> 20) @@ (NET :> 10) @@ (ORG :> 10) @@ (IO :> 10)
                  @@ (DEV :> 10) @@ (ME :> 5) @@ (NG :> 10)]

\* The initOptions a client is constructed with
InitOptions ==
  {<<>>,
   ("limit" :> Num(2)) @@ ("defaultTlds" :> Arr(<<NET>>))}

\* The providers the availability check may meet
Providers ==
  {[throws |-> t, registered |-> r, omitted |-> o, invalid |-> i, other |-> a] :
     t \in BOOLEAN,
     r \in {{}, {SOLO \o <<".">> \o COM, FAST \o <<".">> \o NG}},
     o \in {{}, {SOLO \o <<".">> \o NG, TECH \o <<".">> \o COM}},
     i \in {{}, {QUICK \o <<".">> \o COM}},
     a \in {"unregistered", "unsupported"}}

NoProvider ==
  [throws |-> FALSE, registered |-> {}, omitted |-> {}, invalid |-> {},
   other |-> "unregistered"]

\* One optional field of a request: absent, or one of the values
Opt(field, values) == {<<>>} \cup {(field :> v) : v \in values}

\* Requests that processRequest rejects
InvalidRequests ==
  {<<>>, ("query" :> <<>>), ("query" :> <<" ", " ">>)}
  \cup {("query" :> Words(FAST, TECH)) @@ o :
          o \in {("limit" :> Num(0)), ("limit" :> Num(0 - 1)), ("limit" :> NotFinite),
                 ("offset" :> Num(0 - 1)), ("offset" :> NotFinite),
                 ("supportedTlds" :> Arr(<< <<"b","a","d","_","t","l","d">> >>)),
                 ("supportedTlds" :> NotArray),
                 ("defaultTlds" :> Arr(<<COM, <<"x">> >>)),
                 ("defaultTlds" :> NotArray)}}

\* Pages of one query
PageRequests ==
  {("query" :> Words(FAST, TECH)) @@ l @@ o :
     l \in Opt("limit", {Num(2)}), o \in Opt("offset", {Num(2)})}

\* Requests that choose the TLDs
TldRequests ==
  {("query" :> q) @@ ("supportedTlds" :> Arr(s)) @@ l @@ d :
     q \in {Words(FAST, TECH), Words(BRAND, LY)},
     s \in {<<NET>>, << <<".","L","Y">>, COM>>},
     l \in Opt("location", {US}),
     d \in Opt("defaultTlds", {Arr(<<ORG>>)})}

\* Requests that ask for the availability check
AvailabilityRequests ==
  {("query" :> SOLO) @@ ("checkAvailability" :> TRUE) @@ l @@ d :
     l \in Opt("limit", {Num(1)}), d \in Opt("debug", {TRUE})}
  \cup {("query" :> Words(FAST, TECH)) @@ ("checkAvailability" :> TRUE)
          @@ ("limit" :> Num(1))}

\* A query of three tokens (the shuffle has pairs to reorder), and the rest
OtherRequests ==
  {("query" :> Words(Words(FAST, TECH), BANK)),
   ("query" :> <<"t","h","e">>),
   ("query" :> <<"!","!">>),
   ("query" :> LY),
   ("query" :> <<"F","a","s","t","-","T","e","c","h","!">>) @@ ("includeHyphenated" :> TRUE),
   ("query" :> <<"f","a","s","t","s">>) @@ ("maxSynonyms" :> 1) @@ ("useAi" :> TRUE),
   ("query" :> BRAND \o LY) @@ ("tldWeights" :> (NET :> 50))
     @@ ("prefixes" :> Arr(<<>>)) @@ ("location" :> <<"U","n","i","t","e","d">>)}

\* A request whose permutations outnumber the least generation limit
LargeRequests ==
  {("query" :> Words(FAST, TECH)) @@ ("includeHyphenated" :> TRUE)
     @@ ("supportedTlds" :> Arr(<<COM, NET, ORG, IO, DEV>>))
     @@ ("limit" :> Num(LargeLimit))}

Requests ==
  InvalidRequests \cup PageRequests \cup TldRequests \cup AvailabilityRequests
  \cup OtherRequests \cup LargeRequests

\* ----------------------------------------------------- the search pipeline

\* No function called on its own
NoCall == [op |-> "none"]

\* No objects built for a call
NoObjects == <<>>

\* Nothing returned yet
NoResult == [returned |-> FALSE]

\* The locals of executeSearch before the call: nothing computed yet
NoSearch ==
  [options |-> <<>>,
   prepared |-> [thrown |-> NotThrown],
   timers |-> <<>>,
   draws |-> <<>>,
   settled |-> <<>>,
   results |-> <<<<>>, <<>>, <<>>>>,
   rawCandidates |-> <<>>,
   scored |-> <<>>,
   rankedAll |-> <<>>,
   provider |-> NoProvider,
   stage |-> [results |-> <<>>, invalid |-> <<>>],
   response |-> <<>>]

\* new DomainSearchClient(initOptions): { ...DEFAULT_INIT_OPTIONS, ...initOptions }
Init ==
  /\ pc = "idle"
  /\ \E initOptions \in InitOptions :
       client = [init |-> initOptions @@ DEFAULT_INIT_OPTIONS]
  /\ search = NoSearch
  /\ cands = <<>>
  /\ rk = RankInit(<<>>, NoLimit)
  /\ call = NoCall
  /\ ret = NoResult
  /\ heap = NoObjects

\* client.search(options): executeSearch(init, options) is called
Search(o) ==
  /\ pc \in {"idle", "done"}
  /\ pc' = "processing"
  /\ search' = [NoSearch EXCEPT !.options = o, !.timers = <<"total-search">>]
  /\ UNCHANGED <<client, cands, rk, call, ret, heap>>

\* Step 1: processRequest, and the error response when it throws
ProcessRequest ==
  /\ pc = "processing"
  /\ LET prepared == processRequest(client.init, search.options)
         timers == Append(search.timers, "request-processing")
     IN IF prepared.thrown # NotThrown
          THEN /\ pc' = "done"
               /\ search' = [search EXCEPT !.prepared = prepared,
                                           !.timers = timers,
                                           !.response = error(prepared.thrown)]
          ELSE /\ pc' = "generating"
               /\ search' = [search EXCEPT !.prepared = prepared,
                                           !.timers = Append(timers, "domain-generation")]
  /\ UNCHANGED <<client, cands, rk, call, ret, heap>>

\* The draws Math.random can give the shuffle of the query's pairs
DrawsFor(query) ==
  LET n == Len(query.tokens)
  IN IF n < 2 THEN {<<>>} ELSE RandomDraws((n * (n - 1)) \div 2)

\* Step 2, one strategy of generateCandidates settling; the three run
\* concurrently and settle in any order
StrategyDone(idx) ==
  /\ pc = "generating"
  /\ idx \notin Range(search.settled)
  /\ \E d \in (IF idx = 1 THEN DrawsFor(search.prepared.processed) ELSE {search.draws}) :
       LET query == search.prepared.processed
           generated == IF idx = 1 THEN PermutationStrategy(query, d)
                        ELSE IF idx = 2 THEN AffixStrategy(query)
                        ELSE TldHackStrategy(query)
       IN search' = [search EXCEPT !.draws = d,
                                   !.results[idx] = generated,
                                   !.settled = Append(@, idx)]
  /\ UNCHANGED <<pc, client, cands, rk, call, ret, heap>>

\* Step 2, after Promise.all: the merge and the dedupe
Merge ==
  /\ pc = "generating"
  /\ Len(search.settled) = Len(StrategyNames)
  /\ pc' = "generated"
  /\ search' = [search EXCEPT !.rawCandidates = MergeResults(search.results)]
  /\ UNCHANGED <<client, cands, rk, call, ret, heap>>

\* Step 3: scoreCandidates
Score ==
  /\ pc = "generated"
  /\ pc' = "scored"
  /\ search' = [search EXCEPT
                  !.timers = Append(@, "scoring"),
                  !.scored = scoreCandidates(search.rawCandidates,
                                             search.prepared.processed,
                                             search.prepared.locationTld,
                                             search.prepared.tldWeights)]
  /\ UNCHANGED <<client, cands, rk, call, ret, heap>>

\* Step 4: rankDomains(scored, prepared.processed.limit)
Rank ==
  /\ pc = "scored"
  /\ pc' = "ranked"
  /\ search' = [search EXCEPT
                  !.timers = Append(@, "ranking"),
                  !.rankedAll = rankDomains(search.scored,
                                            search.prepared.processed.limit)]
  /\ UNCHANGED <<client, cands, rk, call, ret, heap>>

\* runAvailabilityStage; the provider is met only when the check runs
AvailabilityStage ==
  /\ pc = "ranked"
  /\ pc' = "checked"
  /\ LET checks == search.prepared.checkAvailability /\ Len(search.rankedAll) > 0
     IN \E p \in (IF checks THEN Providers ELSE {NoProvider}) :
          search' = [search EXCEPT
                       !.provider = p,
                       !.timers = IF checks
                                    THEN @ \o <<"availability-check", "availability-rerank">>
                                    ELSE @,
                       !.stage = runAvailabilityStage(search.rankedAll, search.prepared, p)]
  /\ UNCHANGED <<client, cands, rk, call, ret, heap>>

\* Step 5: the offset and limit slices, and buildResponse
Respond ==
  /\ pc = "checked"
  /\ pc' = "done"
  /\ search' = [search EXCEPT
                  !.response = buildResponse(PageOf(search.stage.results, search.prepared),
                                             search.stage.invalid,
                                             search.options,
                                             Len(search.rawCandidates),
                                             search.prepared.filterApplied,
                                             search.prepared.processed)]
  /\ UNCHANGED <<client, cands, rk, call, ret, heap>>

Next ==
  \/ \E o \in Requests : Search(o)
  \/ ProcessRequest
  \/ \E idx \in 1..Len(StrategyNames) : StrategyDone(idx)
  \/ Merge
  \/ Score
  \/ Rank
  \/ AvailabilityStage
  \/ Respond

Spec == Init /\ [][Next]_vars

\* ------------------------------------------------------------ the properties

\* The domains of a candidate list, in lowercase
DomainsOf(list) == {ToLower(list[i].domain) : i \in 1..Len(list)}

\* The generate -> score -> rank run of a prepared request under given draws
RankedUnder(prepared, d) ==
  rankDomains(scoreCandidates(generateCandidates(prepared.processed, d),
                              prepared.processed,
                              prepared.locationTld,
                              prepared.tldWeights),
              prepared.processed.limit)

\* C1: for a fixed ProcessedQuery, scoring configuration and dictionary, every
\* run of generateCandidates -> scoreCandidates -> rankDomains returns the
\* candidates this run returned, in the same order, whatever the shuffle drew
C1_Deterministic ==
  pc = "ranked" =>
    \A d \in DrawsFor(search.prepared.processed) :
      RankedUnder(search.prepared, d) = search.rankedAll

\* C2: no two entries of the results of a response have the same domain
C2_NoDuplicateDomains ==
  pc = "done" =>
    \A i, j \in 1..Len(search.response.results) :
      i # j => search.response.results[i].domain # search.response.results[j].domain

\* C2: a response, after the availability check or without it, that holds a
\* domain two strategies produced
C2_Witness ==
  /\ pc = "done"
  /\ search.response.success
  /\ \E a, b \in 1..Len(StrategyNames) :
       /\ a # b
       /\ DomainsOf(search.results[a]) \cap DomainsOf(search.results[b])
            \cap DomainsOf(search.response.results) # {}

\* The lowercase domains of each strategy's result, in listing order
LowerResults ==
  <<>> \o [idx \in 1..Len(StrategyNames) |->
             <<>> \o [k \in 1..Len(search.results[idx]) |->
                        ToLower(search.results[idx][k].domain)]]

\* The first place, in listing order, where the strategies produced a domain:
\* <<strategy index, position in its result>>
FirstPlace(lows, domain) ==
  LET low == ToLower(domain)
      idx == CHOOSE a \in 1..Len(lows) :
               /\ \E k \in 1..Len(lows[a]) : lows[a][k] = low
               /\ \A b \in 1..(a - 1) : \A k \in 1..Len(lows[b]) : lows[b][k] # low
      pos == CHOOSE k \in 1..Len(lows[idx]) :
               /\ lows[idx][k] = low
               /\ \A j \in 1..(k - 1) : lows[idx][j] # low
  IN <<idx, pos>>

\* C3: the merged list holds every produced domain once, tagged with the
\* earliest strategy of the listing order that produced it, in the order of
\* these first places; the order in which the strategies settled plays no part
C3_FirstInListingOrderWins ==
  pc = "generated" =>
    LET raw == search.rawCandidates
        lows == LowerResults
        places == <<>> \o [i \in 1..Len(raw) |-> FirstPlace(lows, raw[i].domain)]
    IN /\ DomainsOf(raw) = UNION {Range(lows[idx]) : idx \in 1..Len(lows)}
       /\ \A i \in 1..Len(raw) :
            /\ raw[i].strategy = StrategyNames[places[i][1]]
            /\ raw[i].domain = search.results[places[i][1]][places[i][2]].domain
            /\ raw[i].suffix = search.results[places[i][1]][places[i][2]].suffix
       /\ \A i \in 1..(Len(raw) - 1) :
            \/ places[i][1] < places[i + 1][1]
            \/ (places[i][1] = places[i + 1][1] /\ places[i][2] < places[i + 1][2])

\* C3: a merge after tldHack settled first and permutation last, with a domain
\* both of them produced
C3_Witness ==
  /\ pc = "generated"
  /\ search.settled = <<3, 2, 1>>
  /\ DomainsOf(search.results[1]) \cap DomainsOf(search.results[3]) # {}

\* A second limit for the baseline search of a page, this much above the
\* page's end
PageSlack == 4

\* The results of the search of the same client and query, offset 0 and the
\* given limit, under the same draws and provider
Baseline(limit) ==
  executeSearch(client.init,
                ("limit" :> Num(limit)) @@ ("offset" :> Num(0)) @@ search.options,
                search.draws, search.provider).results

\* items [from, to) of a list, as Array.prototype.slice gives them
Slice(list, from, to) == SubSeq(list, from + 1, Min(to, Len(list)))

C8_DescendingScore ==
  (pc = "done" /\ search.response.success) =>
    \A i \in 1..(Len(search.response.results) - 1) :
      ~ScoreGreater(search.response.results[i + 1].score,
                    search.response.results[i].score)

\* The request supplies a non-empty supportedTlds list
SuppliesSupportedTlds(options) ==
  /\ "supportedTlds" \in DOMAIN options
  /\ options.supportedTlds.isArray
  /\ options.supportedTlds.items # <<>>

\* C9: when the request supplies a non-empty supportedTlds list, the suffix of
\* every result is one of the supplied TLDs, normalized
C9_SupportedTldsRestrict ==
  (pc = "done" /\ search.response.success /\ SuppliesSupportedTlds(search.options)) =>
    \A i \in 1..Len(search.response.results) :
      search.response.results[i].suffix
        \in {normalizeTld(t) : t \in Range(search.options.supportedTlds.items)}

\* The value a search uses for a field: the request's, else the client's
Effective(init, options, field) ==
  IF field \in DOMAIN options THEN options[field] ELSE init[field]

\* A list of the request holds a TLD that is syntactically invalid
HasInvalidTld(options, field) ==
  /\ field \in DOMAIN options
  /\ \E t \in Range(options[field].items) : ~isValidTld(t)

\* The inputs C10 names: the query is missing, empty or white space, the
\* limit is not finite or not positive, the offset is negative, or a default
\* or supported TLD of the request is syntactically invalid
InvalidInput(init, options) ==
  \/ "query" \notin DOMAIN options
  \/ \A i \in 1..Len(options.query) : options.query[i] = " "
  \/ ~Effective(init, options, "limit").finite
  \/ Effective(init, options, "limit").n <= 0
  \/ /\ Effective(init, options, "offset").finite
     /\ Effective(init, options, "offset").n < 0
  \/ HasInvalidTld(options, "defaultTlds")
  \/ HasInvalidTld(options, "supportedTlds")

\* C10: for such an input the search ends in a response with success = false,
\* a message and no results, and nothing was generated, scored or ranked
C10_ValidationFails ==
  (pc \notin {"idle", "processing"} /\ InvalidInput(client.init, search.options)) =>
    /\ pc = "done"
    /\ search.response.success = FALSE
    /\ search.response.message.text # ""
    /\ search.response.results = <<>>
    /\ Range(search.timers) \subseteq {"total-search", "request-processing"}
    /\ search.settled = <<>>
    /\ search.rawCandidates = <<>>
    /\ search.scored = <<>>
    /\ search.rankedAll = <<>>

\* C10: the response to a request whose limit is not positive
C10_Witness ==
  /\ pc = "done"
  /\ "query" \in DOMAIN search.options
  /\ "limit" \in DOMAIN search.options
  /\ search.options.limit.finite
  /\ search.options.limit.n <= 0
  /\ search.response.success = FALSE

\* ------------------------------------------------ rankDomains, step by step

\* The longest candidate list drawn freely
MaxCands == 3

\* The length of a one-suffix queue that outgrows the lookahead window
LongQueue == 7

RankLabels == {<<"a">>, <<"b">>}

RankSuffixes == {COM, NET}

RankStrategies == {"permutation", "affix"}

RankScores == {1, 2}

\* A scored candidate as scoreCandidates hands it to rankDomains
Candidate(label, suffix, strategy, total) ==
  [domain |-> label \o <<".">> \o suffix,
   suffix |-> suffix,
   strategy |-> strategy,
   score |-> [total |-> total, den |-> 1, components |-> [base |-> total]]]

RankCandidates ==
  {Candidate(l, sfx, st, sc) :
     l \in RankLabels, sfx \in RankSuffixes, st \in RankStrategies, sc \in RankScores}

\* Lists of candidates with pairwise distinct domains, as the merge leaves them
ShortLists ==
  UNION {{c \in [1..n -> RankCandidates] :
            \A i, j \in 1..n : i # j => c[i].domain # c[j].domain} : n \in 0..MaxCands}

\* One suffix, LongQueue labels in descending score, any strategies
LongLists ==
  {<<>> \o [i \in 1..LongQueue |->
              Candidate(<<"l", Lower[i]>>, COM, strat[i], LongQueue + 1 - i)] :
     strat \in [1..LongQueue -> RankStrategies]}

\* Three suffixes, two of them with the same top score, and a label that the
\* first pick takes from the top of the second group; any strategies
TieLists ==
  {<<Candidate(<<"a">>, COM, strat[1], 3), Candidate(<<"a">>, NET, strat[2], 2),
     Candidate(<<"c">>, ORG, strat[3], 2), Candidate(<<"b">>, NET, strat[4], 1)>> :
     strat \in [1..4 -> RankStrategies]}

\* A top-scored candidate of one suffix, then a queue of another suffix that
\* outgrows the lookahead window when its first pick is made; any strategies
WideLists ==
  {<<Candidate(<<"x">>, NET, strat[LongQueue + 1], LongQueue + 1)>> \o
     [i \in 1..LongQueue |->
        Candidate(<<"l", Lower[i]>>, COM, strat[i], LongQueue + 1 - i)] :
     strat \in [1..(LongQueue + 1) -> RankStrategies]}

\* rankDomains(candidates, limit) is called
InitRank ==
  /\ pc = "idle"
  /\ client = [init |-> DEFAULT_INIT_OPTIONS]
  /\ search = NoSearch
  /\ \/ /\ cands \in ShortLists
        /\ \E limit \in {NoLimit} \cup (1..MaxCands) : rk = RankInit(cands, limit)
     \/ /\ cands \in LongLists
        /\ \E limit \in {NoLimit, MaxCands} : rk = RankInit(cands, limit)
     \/ /\ cands \in TieLists
        /\ \E limit \in {NoLimit, MaxCands} : rk = RankInit(cands, limit)
     \/ /\ cands \in WideLists
        /\ \E limit \in {NoLimit, MaxCands} : rk = RankInit(cands, limit)
  /\ call = NoCall
  /\ ret = NoResult
  /\ heap = NoObjects

\* The body of the for loop, for the group at gi
RankServe ==
  /\ ~rk.done
  /\ rk.gi <= Len(rk.groups)
  /\ rk' = ServeGroup(rk)
  /\ UNCHANGED <<pc, client, search, cands, call, ret, heap>>

\* The end of a pass of the while loop
RankEndPass ==
  /\ ~rk.done
  /\ rk.gi > Len(rk.groups)
  /\ rk' = EndPass(rk)
  /\ UNCHANGED <<pc, client, search, cands, call, ret, heap>>

NextRank == RankServe \/ RankEndPass

SpecRank == InitRank /\ [][NextRank]_vars

\* rankDomains is one synchronous call: its loop keeps stepping until it returns
SpecRankFair == SpecRank /\ WF_vars(NextRank)

\* The labels of a list of candidates
LabelsOf(list) == {getDomainLabel(list[i]) : i \in 1..Len(list)}

\* The picks before the latest one
Earlier(out) == SubSeq(out, 1, Len(out) - 1)

\* The latest pick
Latest(out) == out[Len(out)]

\* The latest pick repeats a label
RepeatsLabel(out) ==
  Len(out) >= 2 /\ getDomainLabel(Latest(out)) \in LabelsOf(Earlier(out))

\* The latest pick continues the strategy of the pick before it
RepeatsStrategy(out) ==
  Len(out) >= 2 /\ StrategyOf(Latest(out)) = StrategyOf(out[Len(out) - 1])

\* C4 as stated: a label is in the returned list twice only when more
\* candidates are returned than the candidates have distinct labels
C4_AsStated ==
  rk.done =>
    ((\E i, j \in 1..Len(rk.out) :
        i # j /\ getDomainLabel(rk.out[i]) = getDomainLabel(rk.out[j]))
     => Len(rk.out) > Cardinality(LabelsOf(cands)))

\* C4: rankDomains emits a label a second time only when every candidate of
\* the lookahead window it scanned for that pick has a label already emitted
C4_RepeatOnlyAsLastResort ==
  RepeatsLabel(rk.out) =>
    \A i \in 1..Len(rk.window) :
      getDomainLabel(rk.window[i]) \in LabelsOf(Earlier(rk.out))

\* C4: a finished run that returned a label twice, and no more candidates
\* than there are distinct labels
C4_Witness ==
  /\ rk.done
  /\ RepeatsLabel(rk.out)
  /\ Len(rk.out) <= Cardinality(LabelsOf(cands))

\* C5 as stated: two consecutive picks have the same strategy only when the
\* window scanned for the second held no candidate of another strategy
C5_AsStated ==
  RepeatsStrategy(rk.out) =>
    \A i \in 1..Len(rk.window) :
      StrategyOf(rk.window[i]) = StrategyOf(Latest(rk.out))

\* C5: two consecutive picks have the same strategy only when every candidate
\* of another strategy in the window scanned for the second had a label
\* already emitted
C5_NoRunWhenFreshAlternative ==
  RepeatsStrategy(rk.out) =>
    \A i \in 1..Len(rk.window) :
      StrategyOf(rk.window[i]) # StrategyOf(Latest(rk.out))
        => getDomainLabel(rk.window[i]) \in LabelsOf(Earlier(rk.out))

\* C5: a second pick of the same strategy, made from a window that held a
\* candidate of another strategy
C5_Witness ==
  /\ RepeatsStrategy(rk.out)
  /\ \E i \in 1..Len(rk.window) :
       StrategyOf(rk.window[i]) # StrategyOf(Latest(rk.out))

\* C7: a run with limit k returns the first min(k, |c|) items of the run
\* without a limit, never holds more than k items, and is over once it holds k
C7_LimitIsPrefix ==
  rk.limit # NoLimit =>
    /\ Len(rk.out) <= rk.limit
    /\ Len(rk.out) = rk.limit => rk.done
    /\ rk.done =>
         rk.out = SubSeq(rankDomains(cands, NoLimit), 1, Min(rk.limit, Len(cands)))

\* C7: a run its limit ended before the candidates ran out
C7_Witness ==
  /\ rk.done
  /\ rk.limit # NoLimit
  /\ rk.limit < Len(cands)
  /\ Len(rk.out) = rk.limit

\* ------------------------------------------------- the queries handed on

\* C11: every ProcessedQuery handed to the generation strategies has a
\* non-empty tokens list
C11_TokensNonEmpty ==
  pc \in {"generating", "generated", "scored", "ranked", "checked"} =>
    search.prepared.processed.tokens # <<>>

\* C12: every candidate scoreCandidates keeps has a non-empty label, and its
\* domain is that label, a dot and its suffix
C12_LabelNonEmpty ==
  pc = "scored" =>
    \A i \in 1..Len(search.scored) :
      LET cand == search.scored[i]
          label == DropLast(cand.domain, Len(cand.suffix) + 1)
      IN /\ label # <<>>
         /\ cand.domain = label \o <<".">> \o cand.suffix

\* ------------------------------------------------- scoring, call by call

\* The labels scored on their own: plain and hyphenated compounds, a digit,
\* consonant clusters, repeated letters, no letters at all
ScoreWords ==
  {FAST, TECH, <<"g","o">>, <<"b","b">>, <<"s","t">>, <<"r","k">>, <<"a","a">>}

ScoreLabels ==
  {FAST, <<"a","a","a">>, <<"x","9">>, <<"-","-">>, <<>>}
    \cup {a \o b : a \in ScoreWords, b \in ScoreWords}
    \cup {a \o <<"-">> \o b : a \in ScoreWords, b \in ScoreWords}

\* Suffixes of two lengths, with and without a weight, one in upper case; the
\* empty suffix
ScoreSuffixes == {COM, NET, <<"N","E","T">>, <<"x","y","z">>, IO, NG, <<>>}

ScoreLocations == {Undefined, COM}

\* The default configuration, and one with a zero, a negative and a large
\* weight, no hyphen penalty and no base score
ScoreConfigs ==
  {ScoringConfig,
   [ScoringConfig EXCEPT !.tldWeights = (COM :> 0) @@ (NET :> (0 - 3)) @@ (IO :> 50),
                         !.hyphenPenalty = 0,
                         !.baseScore = 0]}

ScoreCalls ==
  {[op |-> "scoreDomain", label |-> l, tld |-> t, location |-> loc, cfg |-> cfg] :
     l \in ScoreLabels, t \in ScoreSuffixes, loc \in ScoreLocations, cfg \in ScoreConfigs}

\* A candidate as the ranked list holds it
ScoredCandidate(label, tld, strategy) ==
  [domain |-> label \o <<".">> \o tld,
   suffix |-> tld,
   strategy |-> strategy,
   score |-> scoreDomain(label, tld, Undefined, ScoringConfig)]

\* A candidate of the availability stage: annotated, and, for the second of
\* two adjustments, with a demand bonus in its score already
Checked(cand, status, demand) == Annotated(Adjusted(cand, demand), status)

\* The lists rerankWithUnavailable is called with
RerankLists ==
  {[candidates |-> c, unavailable |-> u] :
     c \in {<<>>,
            <<Checked(ScoredCandidate(FAST, NET, "permutation"), "unregistered", 0)>>,
            <<Checked(ScoredCandidate(FAST, NET, "permutation"), "unregistered", 0),
              Checked(ScoredCandidate(TECH, NET, "affix"), "unknown", 0),
              Checked(ScoredCandidate(FAST, IO, "affix"), "unregistered", 1)>>},
     u \in {<<>>,
            <<Checked(ScoredCandidate(FAST, COM, "permutation"), "registered", 0)>>,
            <<Checked(ScoredCandidate(FAST, COM, "permutation"), "registered", 0),
              Checked(ScoredCandidate(FAST, ORG, "affix"), "invalid", 0),
              Checked(ScoredCandidate(SOLO, COM, "affix"), "registered", 0)>>}}

\* The objects of the heap; a reference is the place of an object in it. A
\* candidate object holds its own fields and a reference to its score object,
\* which holds a reference to its components map
ComponentsObject(map) == [kind |-> "components", map |-> map]

ScoreObject(total, den, components) ==
  [kind |-> "score", total |-> total, den |-> den, components |-> components]

CandidateObject(fields, score) ==
  [kind |-> "candidate", fields |-> fields, score |-> score]

\* A candidate built on the heap the way annotateAvailability builds it: a
\* components map, a score object and a candidate object of its own
Store(h, cand) ==
  LET h1 == Append(h, ComponentsObject(cand.score.components))
      h2 == Append(h1, ScoreObject(cand.score.total, cand.score.den, Len(h1)))
  IN Append(h2, CandidateObject([k \in (DOMAIN cand) \ {"score"} |-> cand[k]], Len(h2)))

RECURSIVE StoreAll(_, _)
StoreAll(h, list) ==
  IF list = <<>> THEN h ELSE StoreAll(Store(h, Head(list)), Tail(list))

\* The references of the candidates from..to of a heap StoreAll built
RefsOfStored(from, to) == <<>> \o [k \in 1..(to - from + 1) |-> 3 * (from + k - 1)]

\* The candidate behind a reference read through to its score and components,
\* the reference kept with it
Deref(h, ref) ==
  ("ref" :> ref)
    @@ ("score" :> [total |-> h[h[ref].score].total,
                    den |-> h[h[ref].score].den,
                    components |-> h[h[h[ref].score].components].map])
    @@ h[ref].fields

DerefAll(h, refs) == <<>> \o [k \in 1..Len(refs) |-> Deref(h, refs[k])]

\* An adjustment written into the objects passed in
AdjustInPlace(h, ref, demand) ==
  IF demand = 0 THEN [heap |-> h, ref |-> ref]
  ELSE LET score == h[ref].score
           components == h[score].components
           bonus == demand * 7 * h[score].den
           prior == IF "availabilityDemand" \in DOMAIN h[components].map
                      THEN h[components].map["availabilityDemand"] ELSE 0
       IN [heap |-> [h EXCEPT ![score].total = @ + bonus,
                              ![components].map = ("availabilityDemand" :> prior + bonus) @@ @],
           ref |-> ref]

\* The callback of candidates.map in rerankWithUnavailable: the candidate
\* itself without demand, else a new components map (the spread of the old
\* one, availabilityDemand raised), a new score object and a new candidate
\* object (the spread of the old one)
AdjustObject(h, ref, demand) ==
  IF demand = 0 THEN [heap |-> h, ref |-> ref]
  ELSE LET candidate == h[ref]
           score == h[candidate.score]
           old == h[score.components].map
           bonus == demand * LABEL_DEMAND_BONUS * score.den
           prior == IF "availabilityDemand" \in DOMAIN old THEN old["availabilityDemand"] ELSE 0
           h1 == Append(h, ComponentsObject(("availabilityDemand" :> prior + bonus) @@ old))
           h2 == Append(h1, ScoreObject(score.total + bonus, score.den, Len(h1)))
           h3 == Append(h2, CandidateObject(candidate.fields, Len(h2)))
       IN [heap |-> h3, ref |-> Len(h3)]

\* candidates.map(...): st is [heap, refs], refs the array `adjusted` so far
RECURSIVE AdjustFrom(_, _, _, _)
AdjustFrom(st, candidates, demands, k) ==
  IF k > Len(candidates) THEN st
  ELSE LET a == AdjustObject(st.heap, candidates[k], demands[k])
       IN AdjustFrom([heap |-> a.heap, refs |-> Append(st.refs, a.ref)],
                     candidates, demands, k + 1)

\* rankDomains on the objects behind the references: it reads them, and
\* returns a new array of the same references
RankObjects(h, refs) ==
  LET ranked == rankDomains(DerefAll(h, refs), Len(refs))
  IN <<>> \o [k \in 1..Len(ranked) |-> ranked[k].ref]

\* rerankWithUnavailable on arrays of references into the heap h
RerankObjects(h, candidates, unavailable) ==
  IF candidates = <<>> THEN [heap |-> h, value |-> <<>>]
  ELSE IF unavailable = <<>> THEN [heap |-> h, value |-> RankObjects(h, candidates)]
  ELSE LET demands == <<>> \o [k \in 1..Len(candidates) |->
                         DemandOf(DerefAll(h, unavailable),
                                  getDomainLabel(Deref(h, candidates[k])))]
           adjusted == AdjustFrom([heap |-> h, refs |-> <<>>], candidates, demands, 1)
       IN [heap |-> adjusted.heap, value |-> RankObjects(adjusted.heap, adjusted.refs)]

\* scoreDomain is called on its own, or rerankWithUnavailable on two arrays of
\* candidates built on the heap
InitScore ==
  /\ pc = "idle"
  /\ client = [init |-> DEFAULT_INIT_OPTIONS]
  /\ search = NoSearch
  /\ cands = <<>>
  /\ rk = RankInit(<<>>, NoLimit)
  /\ ret = NoResult
  /\ \/ /\ call \in ScoreCalls
        /\ heap = NoObjects
     \/ \E l \in RerankLists :
          /\ heap = StoreAll(<<>>, l.candidates \o l.unavailable)
          /\ call = [op |-> "rerank",
                     candidates |-> RefsOfStored(1, Len(l.candidates)),
                     unavailable |-> RefsOfStored(Len(l.candidates) + 1,
                                                 Len(l.candidates) + Len(l.unavailable))]

Returned(value) == [returned |-> TRUE, value |-> value]

\* scoreDomain(label, tld, location, cfg) returns
ScoreDomain ==
  /\ call.op = "scoreDomain"
  /\ ~ret.returned
  /\ ret' = Returned(scoreDomain(call.label, call.tld, call.location, call.cfg))
  /\ UNCHANGED <<pc, client, search, cands, rk, call, heap>>

\* rerankWithUnavailable(candidates, unavailable) returns
Rerank ==
  /\ call.op = "rerank"
  /\ ~ret.returned
  /\ heap' = RerankObjects(heap, call.candidates, call.unavailable).heap
  /\ ret' = Returned(RerankObjects(heap, call.candidates, call.unavailable).value)
  /\ UNCHANGED <<pc, client, search, cands, rk, call>>

NextScore == ScoreDomain \/ Rerank

SpecScore == InitScore /\ [][NextScore]_vars

\* The sum of the values of a components map
RECURSIVE SumOver(_, _)
SumOver(components, keys) ==
  IF keys = {} THEN 0
  ELSE LET k == CHOOSE x \in keys : TRUE
       IN components[k] + SumOver(components, keys \ {k})

\* total is the sum of the components, and no component kept is zero
Balanced(score) ==
  /\ score.total = SumOver(score.components, DOMAIN score.components)
  /\ \A k \in DOMAIN score.components : score.components[k] # 0

\* C13: the score scoreDomain returns has total = the sum of its components
\* and holds a key for a component exactly when its value is not zero; the
\* scores of the list rerankWithUnavailable returns are balanced when the
\* scores it was given are
C13_TotalIsSumOfComponents ==
  /\ (call.op = "scoreDomain" /\ ret.returned) =>
       LET c == ret.value.components
           weight == IF ToLower(call.tld) \in DOMAIN call.cfg.tldWeights
                       THEN call.cfg.tldWeights[ToLower(call.tld)] ELSE 0
       IN /\ Balanced(ret.value)
          /\ ("base" \in DOMAIN c) = (call.cfg.baseScore # 0)
          /\ ("lengthPenalty" \in DOMAIN c) = (Len(call.label) + Len(call.tld) # 0)
          /\ ("hyphenPenalty" \in DOMAIN c)
               = ("-" \in Range(call.label) /\ call.cfg.hyphenPenalty # 0)
          /\ ("numberPenalty" \in DOMAIN c) = (Range(call.label) \cap Digits # {})
          /\ ("tldWeight" \in DOMAIN c) = (weight # 0)
          /\ ("locationBonus" \in DOMAIN c)
               = (call.location # Undefined /\ ToLower(call.tld) = ToLower(call.location))
  /\ (call.op = "rerank" /\ ret.returned) =>
       ((\A i \in 1..Len(call.candidates) : Balanced(Deref(heap, call.candidates[i]).score))
          => \A i \in 1..Len(ret.value) : Balanced(Deref(heap, ret.value[i]).score))

\* C13: a score with a component left out for being zero, and a list
\* returned with a demand bonus added to a score
C13_Witness ==
  \/ /\ call.op = "scoreDomain" /\ ret.returned
     /\ "tldWeight" \notin DOMAIN ret.value.components
     /\ "base" \in DOMAIN ret.value.components
  \/ /\ call.op = "rerank" /\ ret.returned
     /\ \E i \in 1..Len(ret.value) :
          "availabilityDemand" \in DOMAIN Deref(heap, ret.value[i]).score.components

\* a + '-' + b for two non-empty lowercase words
IsHyphenatedPair(label) ==
  /\ CountIn(label, {"-"}) = 1
  /\ label[1] # "-"
  /\ label[Len(label)] # "-"
  /\ \A i \in 1..Len(label) : label[i] \in LowerSet \cup {"-"}

\* a + b of the label a + '-' + b
Unhyphenated(label) ==
  LET NotHyphen(c) == c # "-" IN SelectSeq(label, NotHyphen)

\* The hyphen leaves the consonant-cluster and repeated-letters penalties as
\* they are for the concatenation
SamePenalties(label) ==
  /\ HasConsonantCluster(label) = HasConsonantCluster(Unhyphenated(label))
  /\ HasRepeatedLetters(label) = HasRepeatedLetters(Unhyphenated(label))

\* The call is scoreDomain(a + '-' + b, suffix) under the default configuration
HyphenatedCall ==
  /\ call.op = "scoreDomain"
  /\ ret.returned
  /\ call.cfg = ScoringConfig
  /\ IsHyphenatedPair(call.label)

\* scoreDomain(a + b, suffix) for the call scoreDomain(a + '-' + b, suffix)
PlainScore ==
  scoreDomain(Unhyphenated(call.label), call.tld, call.location, call.cfg)

\* C14, as stated: under the default configuration the hyphenated label
\* a + '-' + b scores strictly lower than a + b, for any two non-empty
\* lowercase words and any suffix
C14_AsStated ==
  HyphenatedCall => ScoreGreater(PlainScore, ret.value)

\* C14, amended: the hyphenated label carries hyphenPenalty = -5, and scores
\* strictly lower than the concatenation whenever both get the same
\* consonant-cluster and repeated-letters penalties
C14_HyphenLowersScore ==
  HyphenatedCall =>
    /\ ret.value.components["hyphenPenalty"] = (0 - 5) * ret.value.den
    /\ SamePenalties(call.label) => ScoreGreater(PlainScore, ret.value)

\* C14: both cases returned: a hyphenated pair with the penalties of its
\* concatenation (fast-tech), and one whose hyphen breaks a cluster (st-rk)
C14_Witness ==
  /\ HyphenatedCall
  /\ \/ SamePenalties(call.label) /\ call.label = FAST \o <<"-">> \o TECH
     \/ ~SamePenalties(call.label) /\ ScoreGreater(PlainScore, ret.value)

\* w(s): the weight the table of the call configures for a suffix, looked up
\* in lower case; 0 for a suffix the table does not hold
ConfiguredWeight(s) ==
  IF ToLower(s) \in DOMAIN call.cfg.tldWeights
    THEN call.cfg.tldWeights[ToLower(s)] ELSE 0

\* The value of a component, 0 for one that was left out
ComponentValue(score, key) ==
  IF key \in DOMAIN score.components THEN score.components[key] ELSE 0

\* The call is scoreDomain(label, s1) with no location
UnlocatedCall ==
  /\ call.op = "scoreDomain"
  /\ ret.returned
  /\ call.location = Undefined

\* scoreDomain(label, s2) for the label and configuration of the call
ScoreWith(s2) == scoreDomain(call.label, s2, Undefined, call.cfg)

BRANDLY == BRAND \o LY

\* tokens and synonyms of the queries handed to a strategy: one token without
\* and with synonyms, a token that ends with a TLD and the same words split,
\* a token that is a TLD, a synonym with a dot in it, two and three tokens,
\* and two tokens whose synonyms join to the same base label twice
\* (br + andly, bra + ndly)
QueryWords ==
  {[tokens |-> <<SOLO>>, synonyms |-> (SOLO :> <<>>)],
   [tokens |-> <<SOLO>>, synonyms |-> (SOLO :> << <<"o","n","e">>, <<"l","o","n","e">> >>)],
   [tokens |-> <<BRANDLY>>, synonyms |-> (BRANDLY :> <<>>)],
   [tokens |-> <<BRAND, LY>>, synonyms |-> (BRAND :> <<>>) @@ (LY :> <<>>)],
   [tokens |-> <<LY>>, synonyms |-> (LY :> <<>>)],
   [tokens |-> <<BANK>>, synonyms |-> (BANK :> << <<"b",".","l","y">> >>)],
   [tokens |-> <<FAST, TECH>>, synonyms |-> (FAST :> <<QUICK>>) @@ (TECH :> <<>>)],
   [tokens |-> << <<"a">>, <<"b">>, <<"c">> >>,
    synonyms |-> (<<"a">> :> <<>>) @@ (<<"b">> :> <<>>) @@ (<<"c">> :> <<>>)],
   [tokens |-> << <<"b","r">>, <<"a","n","d","l","y">> >>,
    synonyms |-> (<<"b","r">> :> << <<"b","r","a">> >>)
                   @@ (<<"a","n","d","l","y">> :> << <<"n","d","l","y">> >>)]}

QueryTlds == {<<>>, <<COM>>, <<LY>>, <<COM, LY>>}

QueryLimits == {1, 2, 3, 5, LargeLimit}

\* prefixes and suffixes of the query: none, one of each, or two of one kind
QueryAffixes ==
  {[prefixes |-> <<>>, suffixes |-> <<>>],
   [prefixes |-> << <<"m","y">> >>, suffixes |-> << <<"h","u","b">> >>],
   [prefixes |-> << <<"m","y">>, <<"g","o">> >>, suffixes |-> <<>>],
   [prefixes |-> <<>>, suffixes |-> << <<"h","u","b">>, <<"l","a","b">> >>]}

\* The ProcessedQuery objects handed to a strategy
ProcessedQueries ==
  {[query |-> <<>>,
    tokens |-> w.tokens,
    synonyms |-> w.synonyms,
    orderedTlds |-> t,
    includeHyphenated |-> h,
    checkAvailability |-> FALSE,
    limit |-> l,
    prefixes |-> a.prefixes,
    suffixes |-> a.suffixes] :
     w \in QueryWords, t \in QueryTlds, h \in BOOLEAN, l \in QueryLimits, a \in QueryAffixes}

\* The calls: the strategies that shuffle get the draws of Math.random
GenCalls ==
  UNION {{[op |-> o, query |-> q, draws |-> d] :
            o \in {"permutation", "generate"}, d \in DrawsFor(q)}
         \cup {[op |-> o, query |-> q, draws |-> <<>>] : o \in {"affix", "tldHack"}} :
           q \in ProcessedQueries}

\* The calls of expandSynonyms: a word the library holds, in both cases, a
\* word it does not hold, and the library answering or throwing
SynonymCalls ==
  {[op |-> "expandSynonyms", token |-> t, max |-> m, throws |-> th] :
     t \in {FAST, <<"F","a","s","t">>, SOLO, <<"f","a","s","t","s">>},
     m \in {0, 1, 5, 10},
     th \in BOOLEAN}

\* A strategy, generateCandidates or expandSynonyms is called on its own
InitGen ==
  /\ pc = "idle"
  /\ client = [init |-> DEFAULT_INIT_OPTIONS]
  /\ search = NoSearch
  /\ cands = <<>>
  /\ rk = RankInit(<<>>, NoLimit)
  /\ call \in GenCalls \cup SynonymCalls
  /\ ret = NoResult
  /\ heap = NoObjects

\* PermutationStrategy.generate(query) resolves
PermutationGenerate ==
  /\ call.op = "permutation"
  /\ ~ret.returned
  /\ ret' = Returned(PermutationStrategy(call.query, call.draws))
  /\ UNCHANGED <<pc, client, search, cands, rk, call, heap>>

\* AffixStrategy.generate(query) resolves
AffixGenerate ==
  /\ call.op = "affix"
  /\ ~ret.returned
  /\ ret' = Returned(AffixStrategy(call.query))
  /\ UNCHANGED <<pc, client, search, cands, rk, call, heap>>

\* TldHackStrategy.generate(query) resolves
TldHackGenerate ==
  /\ call.op = "tldHack"
  /\ ~ret.returned
  /\ ret' = Returned(TldHackStrategy(call.query))
  /\ UNCHANGED <<pc, client, search, cands, rk, call, heap>>

\* generateCandidates(query) resolves
GenerateCandidates ==
  /\ call.op = "generate"
  /\ ~ret.returned
  /\ ret' = Returned(generateCandidates(call.query, call.draws))
  /\ UNCHANGED <<pc, client, search, cands, rk, call, heap>>

\* What the library gives expandSynonyms for the call: nothing when it throws
\* or holds no entry
LookedUp ==
  IF ~call.throws /\ ToLower(call.token) \in DOMAIN SYNONYMS_LIB
    THEN SYNONYMS_LIB[ToLower(call.token)] ELSE <<>>

\* expandSynonyms(token, max) returns
ExpandSynonyms ==
  /\ call.op = "expandSynonyms"
  /\ ~ret.returned
  /\ ret' = Returned(expandSynonymsFrom(LookedUp, call.token, call.max))
  /\ UNCHANGED <<pc, client, search, cands, rk, call, heap>>

NextGen ==
  \/ ExpandSynonyms
  \/ PermutationGenerate
  \/ AffixGenerate
  \/ TldHackGenerate
  \/ GenerateCandidates

SpecGen == InitGen /\ [][NextGen]_vars

\* PermutationStrategy.generate has returned for a query of one token
SingleTokenCall ==
  /\ call.op = "permutation"
  /\ ret.returned
  /\ Len(call.query.tokens) = 1

\* The domains label.tld for label in [token, ...synonyms] and tld in
\* orderedTlds, label-major then in TLD order, each domain at its first place
SoleDomains(query) ==
  LET token == query.tokens[1]
      labels == <<token>> \o query.synonyms[token]
      Row(label) == <<>> \o [k \in 1..Len(query.orderedTlds) |->
                        [domain |-> label \o <<".">> \o query.orderedTlds[k],
                         suffix |-> query.orderedTlds[k]]]
      all == Flatten([i \in 1..Len(labels) |-> Row(labels[i])])
      IsFirst(i) == \A j \in 1..(i - 1) : all[j].domain # all[i].domain
  IN PickAll(all, SelectSeq(Indices(all), IsFirst))

\* C16: for a query of one token PermutationStrategy returns the domains
\* label.tld, label in the token followed by its synonyms and tld in
\* orderedTlds, each once, label-major then in TLD order, cut to the first
\* `limit` of them; with no synonyms and one TLD that is token.tld alone
C16_SingleTokenDomains ==
  SingleTokenCall =>
    LET q == call.query
        all == SoleDomains(q)
    IN /\ ret.value = SubSeq(all, 1, Min(q.limit, Len(all)))
       /\ (q.synonyms[q.tokens[1]] = <<>> /\ Len(q.orderedTlds) = 1) =>
            ret.value = <<[domain |-> q.tokens[1] \o <<".">> \o q.orderedTlds[1],
                           suffix |-> q.orderedTlds[1]]>>

\* C16: a token with synonyms under two TLDs, cut by the limit to three of
\* its six domains
C16_Witness ==
  /\ SingleTokenCall
  /\ Len(call.query.synonyms[call.query.tokens[1]]) = 2
  /\ Len(call.query.orderedTlds) = 2
  /\ call.query.limit = 3
  /\ Len(ret.value) = 3
  /\ ret.value[3].domain = <<"o","n","e">> \o <<".">> \o call.query.orderedTlds[1]

\* TldHackStrategy.generate has returned
TldHackCall == call.op = "tldHack" /\ ret.returned

\* The base labels of a query: one word per token, the token or one of its
\* synonyms, concatenated in token order
RECURSIVE JoinedFrom(_, _)
JoinedFrom(query, i) ==
  IF i > Len(query.tokens) THEN {<<>>}
  ELSE {w \o rest : w \in {query.tokens[i]} \cup Range(query.synonyms[query.tokens[i]]),
                    rest \in JoinedFrom(query, i + 1)}

BaseLabels(query) == JoinedFrom(query, 1)

\* The hacks of a query: a dot-free base label that ends with a TLD, spliced
HacksOf(query) ==
  {[domain |-> SubSeq(L, 1, Len(L) - Len(t)) \o <<".">> \o t, suffix |-> t] :
     <<L, t>> \in {x \in BaseLabels(query) \X Range(query.orderedTlds) :
                     /\ "." \notin Range(x[1])
                     /\ Len(x[1]) >= Len(x[2])
                     /\ SubSeq(x[1], Len(x[1]) - Len(x[2]) + 1, Len(x[1])) = x[2]}}

\* The query of one token made of the tokens of a query joined
JoinedQuery(query) ==
  [query EXCEPT !.tokens = <<Flatten(query.tokens)>>,
                !.synonyms = (Flatten(query.tokens) :> <<>>)]

NoSynonyms(query) ==
  \A i \in 1..Len(query.tokens) : query.synonyms[query.tokens[i]] = <<>>

\* C17: TldHackStrategy returns exactly the hacks of the query (a dot-free
\* base label that ends with a TLD of the query, a dot put before that TLD),
\* each domain once; a query without synonyms gives what its tokens joined
\* into one give; no base label ending with a TLD gives the empty list
C17_TldHackSplices ==
  TldHackCall =>
    /\ Range(ret.value) = HacksOf(call.query)
    /\ \A i, j \in 1..Len(ret.value) : ret.value[i].domain = ret.value[j].domain => i = j
    /\ NoSynonyms(call.query) => ret.value = TldHackStrategy(JoinedQuery(call.query))
    /\ HacksOf(call.query) = {} => ret.value = <<>>

\* C17: brand.ly returned for the tokens brand and ly, or for the base label
\* brandly that two pairs of synonyms spell
C17_Witness ==
  /\ TldHackCall
  /\ Len(call.query.tokens) = 2
  /\ ret.value = <<[domain |-> BRAND \o <<".">> \o LY, suffix |-> LY]>>

\* PermutationStrategy.generate has returned
PermutationCall == call.op = "permutation" /\ ret.returned

\* The words of token i: the token and its synonyms
WordsAt(query, i) ==
  {query.tokens[i]} \cup Range(query.synonyms[query.tokens[i]])

\* The labels the strategy generates when no limit cuts it short: every word
\* of every token and, for two tokens or more, every two words of different
\* tokens joined in either order, with a hyphen too when asked for
AllLabels(query) ==
  LET n == Len(query.tokens)
      pairs == {x \in (1..n) \X (1..n) : x[1] # x[2]}
  IN UNION {WordsAt(query, i) : i \in 1..n}
     \cup UNION {{a \o b : a \in WordsAt(query, x[1]), b \in WordsAt(query, x[2])} :
                   x \in pairs}
     \cup (IF query.includeHyphenated
            THEN UNION {{a \o <<"-">> \o b :
                           a \in WordsAt(query, x[1]), b \in WordsAt(query, x[2])} :
                          x \in pairs}
            ELSE {})

\* The distinct domains of generation without the cap
AllDomains(query) ==
  {l \o <<".">> \o t : l \in AllLabels(query), t \in Range(query.orderedTlds)}

\* C18: for a limit >= 1 PermutationStrategy returns pairwise distinct
\* domains, at most `limit` of them, and exactly `limit` when generation
\* without the cap gives at least `limit`; it returns a list in either case
C18_LimitCapsGeneration ==
  (PermutationCall /\ call.query.limit >= 1) =>
    LET full == Cardinality(AllDomains(call.query))
    IN /\ \A i, j \in 1..Len(ret.value) :
            ret.value[i].domain = ret.value[j].domain => i = j
       /\ \A i \in 1..Len(ret.value) : ret.value[i].domain \in AllDomains(call.query)
       /\ Len(ret.value) <= call.query.limit
       /\ full >= call.query.limit => Len(ret.value) = call.query.limit
       /\ full < call.query.limit => Len(ret.value) = full

\* C18: three tokens cut to five domains in the middle of their pairs, where
\* generation without the cap gives more
C18_Witness ==
  /\ PermutationCall
  /\ Len(call.query.tokens) = 3
  /\ call.query.limit = 5
  /\ Len(ret.value) = 5
  /\ Cardinality(AllDomains(call.query)) > 5

\* A strategy, or generateCandidates, has returned for a query without TLDs
NoTldsCall ==
  /\ call.op \in {"permutation", "affix", "tldHack", "generate"}
  /\ ret.returned
  /\ call.query.orderedTlds = <<>>

\* C19: with an empty orderedTlds each of the three strategies returns the
\* empty list, and so does generateCandidates
C19_NoTldsNoCandidates ==
  NoTldsCall =>
    /\ ret.value = <<>>
    /\ PermutationStrategy(call.query, call.draws) = <<>>
    /\ AffixStrategy(call.query) = <<>>
    /\ TldHackStrategy(call.query) = <<>>

\* C19: generateCandidates returned for a query with tokens, a prefix and a
\* suffix and no TLDs
C19_Witness ==
  /\ NoTldsCall
  /\ call.op = "generate"
  /\ call.query.tokens = <<BRAND, LY>>
  /\ call.query.prefixes # <<>>

\* ------------------------------------------------ the objects of a rerank

\* The label of the candidate object behind a reference: its domain without
\* the dot and the suffix
LabelAt(h, ref) ==
  SubSeq(h[ref].fields.domain, 1,
         Len(h[ref].fields.domain) - Len(h[ref].fields.suffix) - 1)

\* d: how many of the unavailable candidates share the label of a candidate
SharedBy(h, unavailable, ref) ==
  Cardinality({j \in 1..Len(unavailable) : LabelAt(h, unavailable[j]) = LabelAt(h, ref)})

\* The object behind `fresh` in the heap after is a new candidate object for
\* the candidate behind `ref`, with a new score object and a new components
\* map, total and availabilityDemand raised by d * 7 and all else alike
IsAdjustedCopy(before, after, ref, fresh, d) ==
  LET old == Deref(before, ref)
      new == Deref(after, fresh)
      prior == IF "availabilityDemand" \in DOMAIN old.score.components
                 THEN old.score.components["availabilityDemand"] ELSE 0
  IN /\ fresh > Len(before)
     /\ after[fresh].score > Len(before)
     /\ after[after[fresh].score].components > Len(before)
     /\ after[fresh].fields = before[ref].fields
     /\ new.score.total = old.score.total + d * 7 * old.score.den
     /\ new.score.components["availabilityDemand"] = prior + d * 7 * old.score.den
     /\ \A k \in (DOMAIN old.score.components) \ {"availabilityDemand"} :
          new.score.components[k] = old.score.components[k]

\* C20: rerankWithUnavailable returns, for a candidate whose label d >= 1
\* unavailable candidates share, a new candidate object with score.total and
\* components.availabilityDemand raised by d * 7, and for any other candidate
\* the object it was given; every candidate object, score object and
\* components map passed in, of candidates and of unavailable, is after the
\* call what it was before
C20_RerankCopies ==
  [][(call.op = "rerank" /\ ~ret.returned /\ ret'.returned) =>
       /\ Len(heap') >= Len(heap)
       /\ \A r \in 1..Len(heap) : heap'[r] = heap[r]
       /\ Len(ret'.value) = Len(call.candidates)
       /\ \A k \in 1..Len(call.candidates) :
            LET d == SharedBy(heap, call.unavailable, call.candidates[k])
            IN IF d >= 1
                 THEN \E i \in 1..Len(ret'.value) :
                        IsAdjustedCopy(heap, heap', call.candidates[k], ret'.value[i], d)
                 ELSE \E i \in 1..Len(ret'.value) : ret'.value[i] = call.candidates[k]
    ]_vars

\* C20: a rerank has returned three candidates, two of them new objects for
\* a label that unavailable candidates share, one the object passed in
C20_Witness ==
  /\ call.op = "rerank"
  /\ ret.returned
  /\ Len(ret.value) = 3
  /\ Cardinality({i \in 1..3 : ret.value[i] \in Range(call.candidates)}) = 1
  /\ Len(heap) = 3 * (Len(call.candidates) + Len(call.unavailable)) + 6

\* ------------------------------------------------- the rerank without demand

\* C21: with no unavailable candidates rerankWithUnavailable returns the
\* list rankDomains produced in the order it has
C21_NoDemandKeepsOrder ==
  (rk.done /\ rk.limit = NoLimit) =>
    rerankWithUnavailable(rk.out, <<>>) = rk.out

\* ------------------------------------------------- the availability check

\* The availability stage has met the provider
ProviderMet ==
  /\ pc \in {"checked", "done"}
  /\ search.prepared.thrown = NotThrown
  /\ search.prepared.checkAvailability
  /\ Len(search.rankedAll) > 0

\* The provider gave no answer for the domain: it threw, or left it out
Unanswered(domain) ==
  search.provider.throws \/ ToLower(domain) \in search.provider.omitted

\* The candidates of a list with the given domain
WithDomain(list, domain) ==
  {i \in 1..Len(list) : list[i].domain = domain}

\* C22: when the provider throws or leaves a domain out of its answer, the
\* availability stage still returns, every candidate it has no answer for is
\* among the results with availability 'unknown' and not among the invalid
\* ones, and executeSearch answers with success
C22_ProviderFailureIsUnknown ==
  ProviderMet =>
    /\ \A i \in 1..Len(search.rankedAll) :
         Unanswered(search.rankedAll[i].domain) =>
           /\ WithDomain(search.stage.results, search.rankedAll[i].domain) # {}
           /\ \A k \in WithDomain(search.stage.results, search.rankedAll[i].domain) :
                search.stage.results[k].availability = "unknown"
           /\ WithDomain(search.stage.invalid, search.rankedAll[i].domain) = {}
    /\ pc = "done" => search.response.success

\* C22: a search has answered with success although the provider threw, and
\* one although the provider left out a domain that was ranked
C22_Witness ==
  /\ ProviderMet
  /\ pc = "done"
  /\ search.response.success
  /\ Len(search.response.results) > 0
  /\ \/ search.provider.throws
     \/ \E i \in 1..Len(search.rankedAll) :
          ToLower(search.rankedAll[i].domain) \in search.provider.omitted

\* ------------------------------------------------ the lookup that fails

\* expandSynonyms, asked for one word at least, has returned after a lookup
\* that threw or found no entry
LookupFailed ==
  /\ call.op = "expandSynonyms"
  /\ ret.returned
  /\ call.max >= 1
  /\ LookedUp = <<>>

\* C23: expandSynonyms returns for every call, and after a lookup that
\* failed or threw it returns the one-element list [token]
C23_FailedLookupGivesToken ==
  LookupFailed => ret.value = <<call.token>>

\* ------------------------------------------------- the sweeps of rankDomains

\* The candidates still queued in the groups
Queued(st) == Flatten(st.groups)

\* Every candidate of the input is in the output once, and nothing else is
IsPermutation(out, input) ==
  /\ Len(out) = Len(input)
  /\ \A i \in 1..Len(input) :
       Cardinality({j \in 1..Len(out) : out[j] = input[i]})
         = Cardinality({j \in 1..Len(input) : input[j] = input[i]})

\* What holds of every state of a run: a run without a limit that is over has
\* emitted a permutation of its input and has nothing queued, and a sweep
\* that is over while the run goes on has picked something
RankSweepsComplete ==
  /\ (rk.done /\ rk.limit = NoLimit) =>
       /\ IsPermutation(rk.out, cands)
       /\ Queued(rk) = <<>>
  /\ (~rk.done /\ rk.gi > Len(rk.groups)) => rk.picked > 0

\* C24: rankDomains terminates for every candidate list, without a limit its
\* output is a permutation of its input, and no sweep ends without a pick
\* while a candidate is queued
C24_RankTerminates ==
  /\ []RankSweepsComplete
  /\ <>(rk.done)

\* C24: a run without a limit over three candidates of two suffixes is over,
\* after more than one sweep
C24_Witness ==
  /\ rk.done
  /\ rk.limit = NoLimit
  /\ Len(cands) = 3
  /\ Len(rk.out) = 3
  /\ \E i, j \in 1..3 : i # j /\ cands[i].suffix = cands[j].suffix

\* The item rankDomains is to take from a queue, given the picks made so far:
\* among the first min(6, queue length) items, the first with an unused label
\* whose strategy is not that of the pick before, else the first with an
\* unused label, else the head
RuleIndex(out, queue) ==
  LET n == IF Len(queue) < 6 THEN Len(queue) ELSE 6
      fresh == {i \in 1..n : getDomainLabel(queue[i]) \notin LabelsOf(out)}
      varied == {i \in fresh :
                   Len(out) = 0 \/ StrategyOf(queue[i]) # StrategyOf(Latest(out))}
      Least(S) == CHOOSE i \in S : \A j \in S : i <= j
  IN IF varied # {} THEN Least(varied)
     ELSE IF fresh # {} THEN Least(fresh)
     ELSE 1

\* A step that emits a candidate takes the item of the rule from the queue of
\* the group it serves; a used label is emitted only when the first
\* min(6, queue length) items all have used labels, and fewer than 6 items
\* of the queue are ahead of the one emitted
PickFollowsRule ==
  Len(rk'.out) = Len(rk.out) + 1 =>
    LET queue == rk.groups[rk.gi]
        idx == RuleIndex(rk.out, queue)
        item == Latest(rk'.out)
    IN /\ Len(queue) > 0
       /\ Earlier(rk'.out) = rk.out
       /\ item = queue[idx]
       /\ rk'.groups[rk.gi] = SubSeq(queue, 1, idx - 1) \o SubSeq(queue, idx + 1, Len(queue))
       /\ idx <= 6
       /\ getDomainLabel(item) \in LabelsOf(rk.out) =>
            \A i \in 1..Len(queue) :
              i <= 6 => getDomainLabel(queue[i]) \in LabelsOf(rk.out)

\* C25: every pick of rankDomains is, within the first min(6, queue length)
\* items of the served group, the first with an unused label and a strategy
\* that does not extend the run, else the first with an unused label, else
\* the head of the queue
C25_PickFromWindow == [][PickFollowsRule]_vars

\* C25: the second pick is made from a queue of more than 6 items whose first
\* 6 all have the strategy of the first pick while a later one has not, and
\* the head of the queue is what is emitted
C25_Witness ==
  /\ Len(rk.out) = 2
  /\ Len(rk.window) = 6
  /\ Latest(rk.out) = rk.window[1]
  /\ \A i \in 1..6 : StrategyOf(rk.window[i]) = StrategyOf(rk.out[1])
  /\ \E i \in 1..Len(Queued(rk)) : StrategyOf(Queued(rk)[i]) # StrategyOf(rk.out[1])

\* The candidates of a list with the given suffix
OfSuffix(list, suffix) == {i \in 1..Len(list) : list[i].suffix = suffix}

\* The sweep an emitted candidate belongs to: k for the k-th emitted candidate
\* of its suffix group
SweepOf(out, p) == Cardinality({q \in OfSuffix(out, out[p].suffix) : q <= p})

\* No candidate of the list with the given suffix has a higher score than this one
IsTopOf(list, suffix, score) ==
  \A i \in OfSuffix(list, suffix) : ~ScoreGreater(list[i].score, score)

\* Suffix s is served before suffix t: the best score of s is no lower
ServedNoLater(list, s, t) ==
  \E i \in OfSuffix(list, s) :
    /\ IsTopOf(list, s, list[i].score)
    /\ IsTopOf(list, t, list[i].score)

\* The picks of sweep k come before those of sweep k + 1; within a sweep the
\* groups come in descending order of their top score; a group is in sweep
\* k + 1 only after every group of k candidates or more was in sweep k; and
\* the first pick has the maximum score
RoundRobin(out, input) ==
  /\ \A p, q \in 1..Len(out) : SweepOf(out, p) < SweepOf(out, q) => p < q
  /\ \A p, q \in 1..Len(out) :
       (p < q /\ SweepOf(out, p) = SweepOf(out, q))
         => ServedNoLater(input, out[p].suffix, out[q].suffix)
  /\ \A q \in 1..Len(out) : \A i \in 1..Len(input) :
       Cardinality(OfSuffix(input, input[i].suffix)) >= SweepOf(out, q) - 1
         => Cardinality({p \in OfSuffix(out, input[i].suffix) : p < q})
              >= SweepOf(out, q) - 1
  /\ Len(out) >= 1 =>
       \A i \in 1..Len(input) : ~ScoreGreater(input[i].score, out[1].score)

\* C26: rankDomains emits one candidate of each non-empty suffix group per
\* sweep, the groups in descending order of top score, so the k-th emitted
\* candidate of any group precedes the (k+1)-th of every group, and the first
\* emitted candidate has the maximum score
C26_RoundRobinByTopScore == RoundRobin(rk.out, cands)

\* C26: a finished run over two suffix groups or more, one of which was served
\* in a second sweep
C26_Witness ==
  /\ rk.done
  /\ \E p, q \in 1..Len(rk.out) :
       /\ rk.out[p].suffix # rk.out[q].suffix
       /\ SweepOf(rk.out, q) = 2
       /\ ScoreGreater(rk.out[q].score, rk.out[p].score)

\* The words of all the tokens, each a label of its own
Standalone(query) == UNION {WordsAt(query, i) : i \in 1..Len(query.tokens)}

\* A word of one token position and a word of another, joined, in either order
PairsJoinedBy(query, joiner) ==
  LET n == Len(query.tokens)
  IN UNION {{a \o joiner \o b : a \in WordsAt(query, x[1]), b \in WordsAt(query, x[2])} :
              x \in {y \in (1..n) \X (1..n) : y[1] # y[2]}}

\* Words of three token positions joined, in any order
TriplesJoinedBy(query, joiner) ==
  LET n == Len(query.tokens)
  IN UNION {{a \o joiner \o b \o joiner \o c :
               a \in WordsAt(query, x[1]), b \in WordsAt(query, x[2]),
               c \in WordsAt(query, x[3])} :
              x \in {y \in (1..n) \X (1..n) \X (1..n) :
                       y[1] # y[2] /\ y[1] # y[3] /\ y[2] # y[3]}}

\* The label of a generated candidate: its domain without '.suffix'
GeneratedLabel(cand) == SubSeq(cand.domain, 1, Len(cand.domain) - Len(cand.suffix) - 1)

\* PermutationStrategy has returned for two tokens or more, below the limit
UncutPermutation ==
  /\ PermutationCall
  /\ Len(call.query.tokens) >= 2
  /\ Len(ret.value) < call.query.limit

\* C27: for two tokens or more and a limit not reached PermutationStrategy
\* returns exactly the standalone words, the two-word joins in both orders
\* and, if and only if includeHyphenated, their hyphenated forms, each with
\* every TLD; the standalone labels come before the others, and no label
\* joins three words
C27_PermutationLabels ==
  UncutPermutation =>
    LET query == call.query
        labels == Standalone(query) \cup PairsJoinedBy(query, <<>>)
                    \cup (IF query.includeHyphenated
                            THEN PairsJoinedBy(query, <<"-">>) ELSE {})
        emitted == {GeneratedLabel(ret.value[i]) : i \in 1..Len(ret.value)}
    IN /\ Range(ret.value)
            = {[domain |-> l \o <<".">> \o t, suffix |-> t] :
                 l \in labels, t \in Range(query.orderedTlds)}
       /\ \A i, j \in 1..Len(ret.value) :
            (/\ GeneratedLabel(ret.value[i]) \in Standalone(query)
             /\ GeneratedLabel(ret.value[j]) \notin Standalone(query)) => i < j
       /\ ~query.includeHyphenated => emitted \cap PairsJoinedBy(query, <<"-">>) = {}
       /\ emitted \cap (TriplesJoinedBy(query, <<>>) \cup TriplesJoinedBy(query, <<"-">>)) = {}

\* C27: three tokens with two TLDs and hyphens asked for, returned below the
\* limit with a hyphenated pair in the reverse order of the tokens
C27_Witness ==
  /\ UncutPermutation
  /\ Len(call.query.tokens) = 3
  /\ Len(call.query.orderedTlds) = 2
  /\ call.query.includeHyphenated
  /\ \E i \in 1..Len(ret.value) :
       GeneratedLabel(ret.value[i])
         = call.query.tokens[3] \o <<"-">> \o call.query.tokens[1]

\* AffixStrategy.generate has returned
AffixCall == call.op = "affix" /\ ret.returned

\* The domains of the given labels, each with every TLD
LabelsWithTlds(labels, tlds) ==
  {[domain |-> l \o <<".">> \o t, suffix |-> t] : l \in labels, t \in Range(tlds)}

\* prefix + base for every configured prefix and every base label
Prefixed(query) ==
  {p \o b : p \in Range(query.prefixes), b \in BaseLabels(query)}

\* base + suffix for every configured suffix and every base label
Suffixed(query) ==
  {b \o x : b \in BaseLabels(query), x \in Range(query.suffixes)}

\* C28: AffixStrategy returns exactly prefix + base and base + suffix, for
\* every base label, prefix and suffix, each with every TLD: no bare base
\* label, no label with a prefix and a suffix, none dropped for the limit,
\* and nothing at all when both affix lists are empty
C28_AffixDomains ==
  AffixCall =>
    LET query == call.query
        both == {p \o b \o x : p \in Range(query.prefixes), b \in BaseLabels(query),
                               x \in Range(query.suffixes)}
    IN /\ Range(ret.value)
            = LabelsWithTlds(Prefixed(query) \cup Suffixed(query), query.orderedTlds)
       /\ Len(ret.value)
            = Cardinality(BaseLabels(query))
                * (Len(query.prefixes) + Len(query.suffixes)) * Len(query.orderedTlds)
       /\ Range(ret.value) \cap LabelsWithTlds(BaseLabels(query), query.orderedTlds) = {}
       /\ Range(ret.value) \cap LabelsWithTlds(both, query.orderedTlds) = {}
       /\ (query.prefixes = <<>> /\ query.suffixes = <<>>) => ret.value = <<>>

\* C28: a prefix and a suffix, two base labels or more and two TLDs, returned
\* in full with a limit of 1
C28_Witness ==
  /\ AffixCall
  /\ call.query.limit = 1
  /\ call.query.prefixes # <<>>
  /\ call.query.suffixes # <<>>
  /\ Cardinality(BaseLabels(call.query)) >= 2
  /\ Len(call.query.orderedTlds) = 2
  /\ Len(ret.value) = 2 * Cardinality(BaseLabels(call.query)) * 2

\* ------------------------------------------- the partition by availability

\* The domains of a list of candidates, in order
DomainsIn(list) == <<>> \o [i \in 1..Len(list) |-> list[i].domain]

\* The candidates of a list whose availability is 'registered' or 'invalid'
Rejected(list) ==
  {i \in 1..Len(list) : list[i].availability \in {"registered", "invalid"}}

\* The two lists split the input: every candidate of the input is in one of
\* them and not in the other, each list in the order of the input, the
\* second holding the 'registered' and 'invalid' candidates and no other
IsPartition(input, available, unavailable) ==
  LET InSecond(d) == d \in Range(DomainsIn(unavailable))
      InFirst(d) == ~InSecond(d)
  IN /\ DomainsIn(available) = SelectSeq(DomainsIn(input), InFirst)
     /\ DomainsIn(unavailable) = SelectSeq(DomainsIn(input), InSecond)
     /\ Rejected(available) = {}
     /\ Rejected(unavailable) = 1..Len(unavailable)

\* C29: annotateAvailability splits the checked candidates, in their order,
\* into the unavailable ones, which are those with status 'registered' or
\* 'invalid', and the available ones; so a search that checks availability
\* returns no 'registered' or 'invalid' entry among its results but returns
\* them as invalidCandidates, and the candidates past the checked window are
\* 'unknown'
C29_AvailabilityPartition ==
  ProviderMet =>
    LET ranked == search.rankedAll
        window == availabilityWindow(ranked, search.prepared)
        checked == SubSeq(ranked, 1, window)
        annotated == annotateAvailability(checked, search.provider)
    IN /\ IsPartition(checked, annotated.available, annotated.unavailable)
       /\ search.stage.invalid = annotated.unavailable
       /\ Rejected(search.stage.results) = {}
       /\ Range(DomainsIn(search.stage.results)) \cup Range(DomainsIn(search.stage.invalid))
            = Range(DomainsIn(ranked))
       /\ \A i \in (window + 1)..Len(ranked) :
            \A k \in WithDomain(search.stage.results, ranked[i].domain) :
              search.stage.results[k].availability = "unknown"
       /\ pc = "done" =>
            /\ Rejected(search.response.results) = {}
            /\ DomainsIn(search.response.invalidCandidates)
                 = DomainsIn(annotated.unavailable)
            /\ Rejected(search.response.invalidCandidates)
                 = 1..Len(annotated.unavailable)
            /\ \A i \in (window + 1)..Len(ranked) :
                 \A k \in WithDomain(search.response.results, ranked[i].domain) :
                   search.response.results[k].availability = "unknown"

\* C29: a search has answered after a check that found an 'invalid' and a
\* 'registered' candidate in its window and left ranked candidates outside it
C29_Witness ==
  /\ ProviderMet
  /\ pc = "done"
  /\ availabilityWindow(search.rankedAll, search.prepared) < Len(search.rankedAll)
  /\ \E i, j \in 1..Len(search.response.invalidCandidates) :
       /\ search.response.invalidCandidates[i].availability = "invalid"
       /\ search.response.invalidCandidates[j].availability = "registered"
  /\ Len(search.response.results) > 0

\* ------------------------------------------------- the search in a worker

\* The promise that runInNodeWorker / runInBrowserWorker returns
PromiseObject(state, value) == [kind |-> "promise", state |-> state, value |-> value]

\* The Worker: running, failed (it raised an error and is about to exit),
\* terminated (terminate() was called), or exited; id is the message id
WorkerObject(state, id) == [kind |-> "worker", state |-> state, id |-> id]

\* new Error(message)
Error(message) == [name |-> "Error", message |-> message]

\* The value of a promise that is not settled
Unsettled == [name |-> "none"]

\* resolve(value): the first call of resolve or reject settles the promise,
\* the later ones change nothing
resolve(promise, value) ==
  IF promise.state = "pending" THEN PromiseObject("resolved", value) ELSE promise

\* reject(error)
reject(promise, err) ==
  IF promise.state = "pending" THEN PromiseObject("rejected", err) ELSE promise

\* cleanup(): worker.terminate()
cleanup(worker) ==
  IF worker.state = "exited" THEN worker ELSE [worker EXCEPT !.state = "terminated"]

\* The executor of the promise: the Worker is constructed, the handlers are
\* set and the payload is posted; objs is <<promise>> when the constructor
\* threw, and <<promise, worker>> otherwise
runInWorker(creatable, postable) ==
  IF ~creatable THEN <<reject(PromiseObject("pending", Unsettled), Error("construct"))>>
  ELSE IF ~postable
    THEN <<reject(PromiseObject("pending", Unsettled), Error("postMessage")),
           cleanup(WorkerObject("running", 1))>>
  ELSE <<PromiseObject("pending", Unsettled), WorkerObject("running", 1)>>

\* handleRequest of the worker thread: the message it posts back
handleRequest(message, outcome) ==
  IF outcome.rejected THEN [id |-> message.id, error |-> outcome.value.message]
  ELSE [id |-> message.id, result |-> outcome.value]

\* The handler of a message from the worker; the browser's handler ignores a
\* message with another id
onMessage(objs, env, message) ==
  IF env = "browser" /\ message.id # objs[2].id THEN objs
  ELSE <<IF "error" \in DOMAIN message THEN reject(objs[1], Error(message.error))
         ELSE resolve(objs[1], message.result),
         cleanup(objs[2])>>

\* The handler of the worker's error
onError(objs) == <<reject(objs[1], Error("error")), [cleanup(objs[2]) EXCEPT !.state = "failed"]>>

\* The handler of the Node worker's exit: if (code !== 0) { cleanup(); reject(...) }
onExit(objs, code) ==
  <<IF code # 0 THEN reject(objs[1], Error("exit")) ELSE objs[1],
    [objs[2] EXCEPT !.state = "exited"]>>

\* The requests of the searches run in a worker
WorkerRequests ==
  {<<>>,
   ("query" :> SOLO),
   ("query" :> Words(FAST, TECH)),
   ("query" :> SOLO) @@ ("checkAvailability" :> TRUE)}

\* What a run of executeSearch meets: an availability provider that answers
\* or throws (the requests have at most one pair to shuffle)
WorkerProviders ==
  {NoProvider, [NoProvider EXCEPT !.throws = TRUE]}

\* The calls of runSearchInWorker: under Node, in a browser, or under neither;
\* the Worker constructor and postMessage succeed or throw; responses is what
\* executeSearch(init, options) can resolve with, in either thread
WorkerCalls ==
  {[op |-> "runSearchInWorker", env |-> e, options |-> o,
    creatable |-> c, postable |-> p,
    responses |-> {executeSearch(DEFAULT_INIT_OPTIONS, o, <<>>, provider) :
                     provider \in WorkerProviders}] :
     e \in {"node", "browser", "other"}, o \in WorkerRequests,
     c \in BOOLEAN, p \in BOOLEAN}

\* runSearchInWorker(init, options) is to be called
InitWorker ==
  /\ pc = "idle"
  /\ client = [init |-> DEFAULT_INIT_OPTIONS]
  /\ search = NoSearch
  /\ cands = <<>>
  /\ rk = RankInit(<<>>, NoLimit)
  /\ call \in WorkerCalls
  /\ ret = NoResult
  /\ heap = NoObjects

\* runSearchInWorker up to its await: under Node or in a browser the worker
\* is started, otherwise executeSearch is called directly
RunSearchInWorker ==
  /\ pc = "idle"
  /\ IF call.env = "other"
       THEN pc' = "inline" /\ heap' = heap
       ELSE pc' = "awaiting" /\ heap' = runInWorker(call.creatable, call.postable)
  /\ UNCHANGED <<client, search, cands, rk, call, ret>>

\* The worker is there and has not stopped
WorkerRunning == Len(heap) = 2 /\ heap[2].state = "running"

\* The worker thread answers the request: executeSearch there has resolved,
\* or it has rejected
WorkerReplies ==
  /\ WorkerRunning
  /\ \E response \in call.responses, rejected \in BOOLEAN :
       LET request == [id |-> heap[2].id, init |-> client.init, options |-> call.options]
           outcome == [rejected |-> rejected,
                       value |-> IF rejected THEN Error("failed") ELSE response]
       IN heap' = onMessage(heap, call.env, handleRequest(request, outcome))
  /\ UNCHANGED <<pc, client, search, cands, rk, call, ret>>

\* The worker raises an error
WorkerRaisesError ==
  /\ WorkerRunning
  /\ heap' = onError(heap)
  /\ UNCHANGED <<pc, client, search, cands, rk, call, ret>>

\* The Node worker exits: of itself with any code, or with code 1 after an
\* error or after terminate()
WorkerExits ==
  /\ call.env = "node"
  /\ Len(heap) = 2
  /\ heap[2].state # "exited"
  /\ \E code \in (IF heap[2].state = "running" THEN {0, 1} ELSE {1}) :
       heap' = onExit(heap, code)
  /\ UNCHANGED <<pc, client, search, cands, rk, call, ret>>

\* The await of runSearchInWorker: the worker's result is returned, or the
\* catch takes over
AwaitSettles ==
  /\ pc = "awaiting"
  /\ heap[1].state # "pending"
  /\ IF heap[1].state = "resolved"
       THEN pc' = "done" /\ ret' = Returned(heap[1].value)
       ELSE pc' = "fallback" /\ ret' = ret
  /\ UNCHANGED <<client, search, cands, rk, call, heap>>

\* return executeSearch(init, options) in the calling thread
Fallback ==
  /\ pc \in {"inline", "fallback"}
  /\ pc' = "done"
  /\ \E response \in call.responses : ret' = Returned(response)
  /\ UNCHANGED <<client, search, cands, rk, call, heap>>

NextWorker ==
  \/ RunSearchInWorker
  \/ WorkerReplies
  \/ WorkerRaisesError
  \/ WorkerExits
  \/ AwaitSettles
  \/ Fallback

SpecWorker == InitWorker /\ [][NextWorker]_vars

\* The event loop runs every continuation that is ready, and the worker does
\* not stay silent for ever: it replies, raises an error or exits
SpecWorkerFair == SpecWorker /\ WF_vars(NextWorker)

\* What is true of a settled call: after a reply with a result it gave the
\* worker's response, and in every other case a response of executeSearch
\* run in the calling thread
SettledAsStated ==
  ret.returned =>
    IF Len(heap) >= 1 /\ heap[1].state = "resolved"
      THEN ret.value = heap[1].value
      ELSE ret.value \in call.responses

\* C30: runSearchInWorker settles in every run, once and for all, with the
\* worker's response after a reply and with the response of executeSearch in
\* the calling thread in every other case
C30_WorkerCallSettles ==
  /\ []SettledAsStated
  /\ [][ret.returned => ret' = ret]_vars
  /\ <>(ret.returned)

====
